---- MODULE Spec2Model ----
(***************************************************************************)
(* Model of the dynamic tool registry of mcp-graphql-metatool: the         *)
(* persistence store (one JSON file per tool), the host protocol layer's   *)
(* tool table, the in-memory registry (registeredTools) and the save and   *)
(* delete use cases that mutate them.                                      *)
(***************************************************************************)
EXTENDS Integers, Sequences, FiniteSets, TLC

VARIABLES
    proc,             \* "stopped" | "running" | "failed": the server process
    starts,           \* number of process starts so far
    files,            \* TOOLS_DIR: tool name -> parsed JSON content of <name>.json
    serverTools,      \* host layer's tool table: name -> [kind, handle, config]
    registeredTools,  \* the exported Map of server.ts: name -> entry
    nextHandle,       \* identity of the next object registerTool returns
    coreToolsStatus,  \* createServer's report of the core tools it registered
    pc,               \* position of the request being handled ("idle" when none)
    req,              \* the request being handled
    calls,            \* collaborator calls made by the request, in order
    result,           \* what the handler returned ({content, isError})
    pre,              \* files / registry / host table when the request started
    leftBehind,       \* names whose file was written by a save whose registration failed
    inv,              \* the dynamic tool invocation in flight ([status |-> "none"] when none)
    lastUpdate,       \* name -> definition of the latest successful overwrite still bound
    cachedSchema,     \* schemaService.ts: the cached GraphQLSchema, or null
    schemaFetchError, \* schemaService.ts: the message of the failed fetch, or null
    getSchemaCalls,   \* the getSchema calls in flight, one per caller
    schemaLog         \* requests sent by getSchema; first outcome since the last clear

vars == <<proc, starts, files, serverTools, registeredTools, nextHandle, coreToolsStatus,
          pc, req, calls, result, pre, leftBehind, inv, lastUpdate,
          cachedSchema, schemaFetchError, getSchemaCalls, schemaLog>>

(***************************************************************************)
(* Bounds of the model.                                                    *)
(***************************************************************************)
MaxStarts == 2
MaxHandles == 3
MaxSlots == 2
MaxCallers == 2
MaxRequests == 3

(***************************************************************************)
(* JSON values, tagged with their kind so that typeof can be modelled.     *)
(***************************************************************************)
JStr(s) == [t |-> "string", s |-> s]
JNum(n) == [t |-> "number", n |-> n]
JArr(a) == [t |-> "array", a |-> a]
JNull == [t |-> "null"]
Undefined == [t |-> "undefined"]

\* JavaScript's typeof: null and arrays are 'object'
TypeOf(v) == IF v.t \in {"object", "null", "array"} THEN "object" ELSE v.t

(***************************************************************************)
(* Tool names.  Every name matches ^[a-z][a-z0-9_]*$ (the host layer       *)
(* checks tool_name against save_query's inputSchema before the handler).  *)
(***************************************************************************)
CoreTools == {"execute_graphql_query", "save_query", "delete_saved_query",
              "list_saved_queries", "show_saved_query"}
UserNames == {"get_user", "list_items"}
Names == UserNames \cup {"save_query"}
NameOrder == <<"get_user", "list_items", "save_query">>
NameIndex(n) == CHOOSE i \in 1..Len(NameOrder) : NameOrder[i] = n

(***************************************************************************)
(* Partial maps (JavaScript Map / a directory of files).                   *)
(***************************************************************************)
EmptyMap == [n \in {} |-> Undefined]
MapSet(m, k, v) == [x \in (DOMAIN m) \cup {k} |-> IF x = k THEN v ELSE m[x]]
MapDelete(m, k) == [x \in (DOMAIN m) \ {k} |-> m[x]]

(***************************************************************************)
(* Parameter schemas: JSON values.  An object schema carries its type      *)
(* keyword, whether it has a properties object, the properties and the     *)
(* required list.                                                          *)
(***************************************************************************)
PropString == [type |-> "string", hasDefault |-> FALSE, default |-> JNull]
PropIntDefault == [type |-> "integer", hasDefault |-> TRUE, default |-> JNum(10)]

ObjSchema(type, hasProps, props, required) ==
    [t |-> "object", type |-> type, hasProperties |-> hasProps,
     properties |-> props, required |-> required]

SchemaId == ObjSchema("object", TRUE, [k \in {"id"} |-> PropString], {"id"})
SchemaLimit == ObjSchema("object", TRUE, [k \in {"limit"} |-> PropIntDefault], {})
SchemaBadType == ObjSchema("invalid_type", FALSE, EmptyMap, {})

JsonSchemaTypes == {"string", "number", "integer", "boolean", "array", "object", "null"}

\* mutant: a schema of type object must have a properties object
AjvCompilesNeedsProperties(schema) ==
    /\ schema.type \in JsonSchemaTypes \cup {"absent"}
    /\ schema.type = "object" => schema.hasProperties

\* mutant: every schema object compiles
AjvCompilesAnything(schema) == TRUE

\* what ajv.compile accepts: the type keyword, when present, is a JSON Schema type
AjvCompiles(schema) == schema.type \in JsonSchemaTypes \cup {"absent"}

validateJsonSchema(schema) ==
    IF schema.t \in {"null", "undefined"} \/ TypeOf(schema) # "object"
    THEN FALSE
    ELSE AjvCompiles(schema)

\* further parameter schemas the converter and the handlers are given
PropSeparator == [type |-> "string", hasDefault |-> TRUE, default |-> JStr("a;b")]
SchemaEmpty == ObjSchema("absent", FALSE, EmptyMap, {})
SchemaNoProps == ObjSchema("object", FALSE, EmptyMap, {})
SchemaSearch ==
    ObjSchema("object", TRUE,
              [k \in {"id", "limit", "tag"} |->
                  IF k = "limit" THEN PropIntDefault ELSE PropString], {})
SchemaSeparator ==
    ObjSchema("object", TRUE,
              [k \in {"id", "sep"} |-> IF k = "sep" THEN PropSeparator ELSE PropString],
              {"id"})
SchemaNotObject == JStr("not an object")

(***************************************************************************)
(* Runtime validators (zod schemas) and the Schema Converter.              *)
(***************************************************************************)
ZAny == [kind |-> "any"]
ZObject(fields) == [kind |-> "object", fields |-> fields]
ZField(type, optional, hasDefault, default) ==
    [type |-> type, optional |-> optional, hasDefault |-> hasDefault, default |-> default]

ZodFieldTypes == {"string", "number", "integer", "boolean", "array"}

\* the strings of the model that contain a ';'
SemicolonStrings == {"a;b"}

\* the field json-schema-to-zod generates for property k of an object schema:
\* .default(v) when the property has a default, .optional() when it has none
\* and is not listed in required
LibraryField(schema, k) ==
    LET prop == schema.properties[k] IN
    ZField(IF prop.type \in ZodFieldTypes THEN prop.type ELSE "any",
           ~prop.hasDefault /\ k \notin schema.required,
           prop.hasDefault, prop.default)

\* jsonSchemaToZod(jsonSchema): the generated code, or a throw (null has no
\* properties to read)
jsonSchemaToZod(schema) ==
    IF schema.t \in {"null", "undefined"}
    THEN [threw |-> TRUE, expr |-> ZAny, literals |-> {}]
    ELSE [threw |-> FALSE,
          expr |-> IF schema.t # "object" THEN ZAny
                   ELSE IF schema.type = "object"
                        THEN IF schema.hasProperties
                             THEN ZObject([k \in DOMAIN schema.properties |->
                                              LibraryField(schema, k)])
                             ELSE [kind |-> "record"]
                        ELSE IF schema.type \in ZodFieldTypes \cup {"null"}
                             THEN [kind |-> "prim", type |-> schema.type]
                             ELSE ZAny,
          \* the string literals in the generated code
          literals |-> IF schema.t = "object" /\ schema.hasProperties
                       THEN {schema.properties[k].default.s :
                               k \in {x \in DOMAIN schema.properties :
                                         /\ schema.properties[x].hasDefault
                                         /\ schema.properties[x].default.t = "string"}}
                       ELSE {}]

\* evalZodSchema: the code up to its first ';' is evaluated; code cut inside a
\* string literal does not evaluate and z.any() is returned
evalZodSchema(out) ==
    IF \E l \in out.literals : l \in SemicolonStrings THEN ZAny ELSE out.expr

createZodFieldFromJsonSchema(prop) ==
    ZField(IF prop.type \in ZodFieldTypes THEN prop.type ELSE "any", FALSE, FALSE, JNull)

\* createZodSchemaFromJsonSchemaManual: jsonSchema['type'] throws on null
createZodSchemaFromJsonSchemaManual(schema) ==
    IF schema.t \in {"null", "undefined"}
    THEN [threw |-> TRUE, zod |-> ZAny]
    ELSE [threw |-> FALSE,
          zod |-> IF schema.t = "object" /\ schema.type = "object" /\ schema.hasProperties
                  THEN ZObject([k \in DOMAIN schema.properties |->
                                   createZodFieldFromJsonSchema(schema.properties[k])])
                  ELSE ZObject(EmptyMap)]

\* convertJsonSchemaToZod: the library's conversion, the manual one when the
\* library throws
convertJsonSchemaToZod(schema) ==
    LET out == jsonSchemaToZod(schema) IN
    IF out.threw
    THEN createZodSchemaFromJsonSchemaManual(schema)
    ELSE [threw |-> FALSE, zod |-> evalZodSchema(out)]

\* does JSON value v pass a zod field of this type
TypeMatches(type, v) ==
    CASE type = "any" -> TRUE
      [] type \in {"number", "integer"} -> v.t = "number"
      [] OTHER -> v.t = type

\* the paths zod reports for an arguments object
FailingPaths(z, input) ==
    CASE z.kind \in {"any", "record"} -> {}
      [] z.kind = "prim" -> {"(root)"}
      [] OTHER ->
           {k \in DOMAIN z.fields :
               IF k \in DOMAIN input
               THEN ~TypeMatches(z.fields[k].type, input[k])
               ELSE /\ ~z.fields[k].hasDefault
                    /\ ~z.fields[k].optional
                    /\ z.fields[k].type # "any"}

\* the value zod returns: unknown keys stripped, defaults filled in
ParsedValue(z, input) ==
    IF z.kind # "object" THEN input
    ELSE [k \in {x \in DOMAIN z.fields : x \in DOMAIN input \/ z.fields[x].hasDefault} |->
             IF k \in DOMAIN input THEN input[k] ELSE z.fields[k].default]

\* paramSchema.parse(params)
Parse(z, input) ==
    [ok |-> FailingPaths(z, input) = {},
     paths |-> FailingPaths(z, input),
     value |-> ParsedValue(z, input)]

(***************************************************************************)
(* GraphQL queries: sequences of characters.                               *)
(***************************************************************************)
WordChars == {"a", "b", "d", "e", "i", "l", "m", "p", "s", "t"}
IsWord(c) == c \in WordChars

RECURSIVE WordRun(_, _)
\* the maximal run of word characters of q starting at position i
WordRun(q, i) ==
    IF i > Len(q) \/ ~IsWord(q[i]) THEN ""
    ELSE q[i] \o WordRun(q, i + 1)

RECURSIVE WordRunLen(_, _)
WordRunLen(q, i) ==
    IF i > Len(q) \/ ~IsWord(q[i]) THEN 0
    ELSE 1 + WordRunLen(q, i + 1)

RECURSIVE MatchAll(_, _)
\* query.match(/\$(\w+)/g) with the leading $ sliced off each match
MatchAll(q, i) ==
    IF i > Len(q) THEN <<>>
    ELSE IF q[i] = "$" /\ WordRunLen(q, i + 1) > 0
         THEN <<WordRun(q, i + 1)>> \o MatchAll(q, i + 1 + WordRunLen(q, i + 1))
         ELSE MatchAll(q, i + 1)

\* mutant: repeated names are kept
DedupNone(list, seen) == list

RECURSIVE Dedup(_, _)
\* [...new Set(list)]: insertion order, first occurrence kept
Dedup(list, seen) ==
    IF list = <<>> THEN <<>>
    ELSE IF Head(list) \in seen THEN Dedup(Tail(list), seen)
         ELSE <<Head(list)>> \o Dedup(Tail(list), seen \cup {Head(list)})

extractGraphQLVariables(query) == Dedup(MatchAll(query, 1), {})

QueryUser == <<"$", "i", "d", " ", "$", "i", "d">>
QueryItems == <<"$", "a", " ", "$", "b">>

(***************************************************************************)
(* The inputs of save_query used by the registry model.                    *)
(***************************************************************************)
SaveInputs ==
    { [description |-> "first", graphql_query |-> QueryUser,
       parameter_schema |-> SchemaId],
      [description |-> "second", graphql_query |-> QueryItems,
       parameter_schema |-> SchemaLimit],
      [description |-> "bad", graphql_query |-> QueryUser,
       parameter_schema |-> SchemaBadType] }

OverwriteValues == {"true", "false", "omitted"}

\* mutant: an omitted overwrite treated as a request to overwrite
OverwriteFlagOmittedTrue(p) == p.overwrite # "false"

\* params.overwrite ?? false
OverwriteFlag(p) == p.overwrite = "true"

SaveParams ==
    { [tool_name |-> n, description |-> i.description,
       graphql_query |-> i.graphql_query,
       parameter_schema |-> i.parameter_schema, overwrite |-> o] :
      n \in Names, i \in SaveInputs, o \in OverwriteValues }

\* mutant: the variables list is left empty
BuildToolConfigNoVariables(p) ==
    [name |-> p.tool_name,
     description |-> p.description,
     graphql_query |-> p.graphql_query,
     parameter_schema |-> p.parameter_schema,
     pagination_config |-> Undefined,
     idempotency |-> Undefined,
     variables |-> <<>>]

\* mutant: the name field is not the requested tool name
BuildToolConfigFixedName(p) ==
    [name |-> "tool",
     description |-> p.description,
     graphql_query |-> p.graphql_query,
     parameter_schema |-> p.parameter_schema,
     pagination_config |-> Undefined,
     idempotency |-> Undefined,
     variables |-> extractGraphQLVariables(p.graphql_query)]

\* the SavedToolConfig the save handler builds
BuildToolConfig(p) ==
    [name |-> p.tool_name,
     description |-> p.description,
     graphql_query |-> p.graphql_query,
     parameter_schema |-> p.parameter_schema,
     pagination_config |-> Undefined,
     idempotency |-> Undefined,
     variables |-> extractGraphQLVariables(p.graphql_query)]

(***************************************************************************)
(* storage.ts: serialisation and the structural check of a loaded record.  *)
(***************************************************************************)
ConfigKeys == {"name", "description", "graphql_query", "parameter_schema",
               "pagination_config", "idempotency", "variables"}

ConfigField(config, k) ==
    CASE k = "name" -> JStr(config.name)
      [] k = "description" -> JStr(config.description)
      [] k = "graphql_query" -> JStr(config.graphql_query)
      [] k = "parameter_schema" -> config.parameter_schema
      [] k = "pagination_config" -> config.pagination_config
      [] k = "idempotency" -> config.idempotency
      [] k = "variables" -> JArr([i \in 1..Len(config.variables) |-> JStr(config.variables[i])])

\* mutant: a key whose value is undefined is written as null
StringifyNullForUndefined(config) ==
    [k \in ConfigKeys |->
        IF ConfigField(config, k) = Undefined THEN JNull ELSE ConfigField(config, k)]

\* JSON.parse(JSON.stringify(config)): keys whose value is undefined are dropped
Stringify(config) ==
    [k \in {x \in ConfigKeys : ConfigField(config, x) # Undefined} |-> ConfigField(config, k)]

HasKey(json, k) == k \in DOMAIN json
FieldType(json, k) == IF HasKey(json, k) THEN TypeOf(json[k]) ELSE "undefined"

\* a parsed JSON value that is an object with keys (tagged values are the
\* primitives, null and arrays of the model)
IsJsonObject(json) == "t" \notin DOMAIN json

isValidToolConfig(json) ==
    /\ IsJsonObject(json)
    /\ FieldType(json, "name") = "string"
    /\ FieldType(json, "description") = "string"
    /\ FieldType(json, "graphql_query") = "string"
    /\ FieldType(json, "parameter_schema") = "object"
    /\ HasKey(json, "variables")
    /\ json["variables"].t = "array"
    /\ \A i \in 1..Len(json["variables"].a) : TypeOf(json["variables"].a[i]) = "string"

\* the config object a valid record parses to
ParseConfig(json) ==
    [name |-> json["name"].s,
     description |-> json["description"].s,
     graphql_query |-> json["graphql_query"].s,
     parameter_schema |-> json["parameter_schema"],
     pagination_config |-> IF HasKey(json, "pagination_config") THEN json["pagination_config"] ELSE Undefined,
     idempotency |-> IF HasKey(json, "idempotency") THEN json["idempotency"] ELSE Undefined,
     variables |-> [i \in 1..Len(json["variables"].a) |-> json["variables"].a[i].s]]

\* a file whose text JSON.parse rejects
BadJson == [t |-> "invalid JSON syntax"]

\* mutant: a missing file is an error
loadToolFromFileStrict(dir, toolName) ==
    IF toolName \notin DOMAIN dir \/ dir[toolName] = BadJson \/ ~isValidToolConfig(dir[toolName])
    THEN [threw |-> TRUE, value |-> Undefined]
    ELSE [threw |-> FALSE, value |-> ParseConfig(dir[toolName])]

\* loadToolFromFile: null when there is no file; a throw when the text does
\* not parse or the parsed value is not a valid tool configuration
loadToolFromFile(dir, toolName) ==
    IF toolName \notin DOMAIN dir
    THEN [threw |-> FALSE, value |-> JNull]
    ELSE IF dir[toolName] = BadJson \/ ~isValidToolConfig(dir[toolName])
         THEN [threw |-> TRUE, value |-> Undefined]
         ELSE [threw |-> FALSE, value |-> ParseConfig(dir[toolName])]

\* loadAllTools: fails as a whole when the load of any record throws
LoadAllFails(dir) == \E n \in DOMAIN dir : loadToolFromFile(dir, n).threw
loadAllTools(dir) == [n \in DOMAIN dir |-> ParseConfig(dir[n])]

\* saveToolToFile: writeFileSync either writes the record or throws
saveToolToFile(dir, toolName, config, writeOk) ==
    IF writeOk
    THEN [dir |-> MapSet(dir, toolName, Stringify(config)), threw |-> FALSE]
    ELSE [dir |-> dir, threw |-> TRUE]

\* mutant: a failed unlink is swallowed
deleteToolFileSwallow(dir, toolName, unlinkOk) ==
    IF toolName \notin DOMAIN dir \/ ~unlinkOk
    THEN [dir |-> dir, threw |-> FALSE]
    ELSE [dir |-> MapDelete(dir, toolName), threw |-> FALSE]

\* deleteToolFile: no file, nothing to do; else unlinkSync removes it or throws
deleteToolFile(dir, toolName, unlinkOk) ==
    IF toolName \notin DOMAIN dir
    THEN [dir |-> dir, threw |-> FALSE]
    ELSE IF unlinkOk
         THEN [dir |-> MapDelete(dir, toolName), threw |-> FALSE]
         ELSE [dir |-> dir, threw |-> TRUE]

(***************************************************************************)
(* What the tools directory may hold before the first start.               *)
(***************************************************************************)
CorruptRecord ==
    [k \in {"name", "description", "variables"} |->
        IF k = "variables" THEN JNum(1) ELSE JStr("broken")]

StoredFirst(n) ==
    Stringify(BuildToolConfig([tool_name |-> n, description |-> "first",
                               graphql_query |-> QueryUser,
                               parameter_schema |-> SchemaId, overwrite |-> "omitted"]))

\* a record whose parameter_schema is null
StoredNull(n) ==
    Stringify([name |-> n, description |-> "null schema", graphql_query |-> QueryUser,
               parameter_schema |-> JNull, pagination_config |-> Undefined,
               idempotency |-> Undefined, variables |-> <<"id">>])

InitStores ==
    { EmptyMap,
      [n \in {"get_user"} |-> StoredFirst(n)],
      [n \in {"list_items"} |-> CorruptRecord],
      [n \in {"get_user"} |-> StoredNull(n)] }

(***************************************************************************)
(* Host protocol layer (McpServer).                                        *)
(***************************************************************************)
CoreEntry == [kind |-> "core", handle |-> 0, config |-> Undefined]
DynamicEntry(h, config) == [kind |-> "dynamic", handle |-> h, config |-> config]

HostDynamic == {n \in DOMAIN serverTools : serverTools[n].kind = "dynamic"}

\* the host layer routes calls of a core tool to its handler
CoreToolRegistered(n) == n \in DOMAIN serverTools /\ serverTools[n].kind = "core"

\* registry entries: the handle registerTool returned, or (at startup) the config
HandleEntry(h) == [kind |-> "handle", handle |-> h, config |-> Undefined]
ConfigEntry(config) == [kind |-> "config", handle |-> 0, config |-> config]

NoReq == [op |-> "none"]
NoResult == [isError |-> FALSE, text |-> "none"]
NoInv == [status |-> "none"]
NoPre == [files |-> EmptyMap, registeredTools |-> EmptyMap, serverTools |-> EmptyMap]
Snapshot == [files |-> files, registeredTools |-> registeredTools, serverTools |-> serverTools]

Ok(text) == [isError |-> FALSE, text |-> text]
Err(text) == [isError |-> TRUE, text |-> text]

Callers == 1..MaxCallers

\* schemaService.ts at module load: nothing cached, no call in flight
NoCall == [status |-> "idle"]
NoLog == [requests |-> 0, sinceClear |-> 0, settled |-> Undefined, cleared |-> FALSE]

SchemaServiceInit ==
    /\ cachedSchema = JNull
    /\ schemaFetchError = JNull
    /\ getSchemaCalls = [c \in Callers |-> NoCall]
    /\ schemaLog = NoLog

Init ==
    /\ proc = "stopped"
    /\ starts = 0
    /\ files \in InitStores
    /\ serverTools = EmptyMap
    /\ registeredTools = EmptyMap
    /\ nextHandle = 1
    /\ coreToolsStatus = "not started"
    /\ pc = "idle"
    /\ req = NoReq
    /\ calls = <<>>
    /\ result = NoResult
    /\ pre = NoPre
    /\ leftBehind = {}
    /\ inv = NoInv
    /\ lastUpdate = EmptyMap
    /\ SchemaServiceInit

(***************************************************************************)
(* Process start: createServer registers the core tools, then              *)
(* registerAllTools loads every persisted definition and registers it.     *)
(* The Map registerAllTools returns (name -> SavedToolConfig) becomes      *)
(* registeredTools.                                                        *)
(***************************************************************************)
\* values of the DISABLE_CORE_TOOLS environment variable
EnvValues == {"unset", "", "none", "all", "All", "management", "MANAGEMENT", "invalid"}

\* String.prototype.toLowerCase on those values
ToLowerCase(v) ==
    CASE v = "All" -> "all"
      [] v = "MANAGEMENT" -> "management"
      [] OTHER -> v

\* process.env['DISABLE_CORE_TOOLS']?.toLowerCase() || 'none'
\* mutant: the value is compared as written
DisableSettingCaseSensitive(env) == IF env \in {"unset", ""} THEN "none" ELSE env

DisableSetting(env) == IF env \in {"unset", ""} THEN "none" ELSE ToLowerCase(env)

\* the core tools createServer registers under a setting
EnabledCoreTools(setting) ==
    IF setting = "all" THEN {}
    ELSE IF setting = "management" THEN {"execute_graphql_query"}
    ELSE CoreTools

CoreToolsStatus(setting) ==
    IF setting = "all" THEN "all core tools disabled"
    ELSE IF setting = "management"
         THEN "management tools disabled, execute_graphql_query enabled"
         ELSE "all core tools enabled"

CoreTable(setting) == [n \in EnabledCoreTools(setting) |-> CoreEntry]

\* McpServer.registerTool rejects a name it already holds
RegisterToolThrows(table, toolName, hostOk) == toolName \in DOMAIN table \/ ~hostOk

Rank(n, S) == Cardinality({m \in S : NameIndex(m) < NameIndex(n)}) + 1

\* the host table after registerAllTools registered every loaded tool
RegisterAllHost(table, existingTools) ==
    [n \in (DOMAIN table) \cup (DOMAIN existingTools) |->
        IF n \in DOMAIN existingTools
        THEN DynamicEntry(Rank(n, DOMAIN existingTools), existingTools[n])
        ELSE table[n]]

\* mutant: a fresh Map is returned instead of the loaded one
registerAllToolsFreshMap(existingTools) == EmptyMap

\* the Map registerAllTools returns: existingTools itself
registerAllTools(existingTools) ==
    [n \in DOMAIN existingTools |-> ConfigEntry(existingTools[n])]

StartupThrows(setting, hostOk) ==
    \/ LoadAllFails(files)
    \/ \E n \in DOMAIN files : \* createDynamicToolHandler converts the schema
          convertJsonSchemaToZod(loadAllTools(files)[n].parameter_schema).threw
    \/ \E n \in DOMAIN files : RegisterToolThrows(CoreTable(setting), n, hostOk)

Startup ==
    /\ proc \in {"stopped", "failed"}
    /\ pc = "idle"
    /\ starts < MaxStarts
    /\ starts' = starts + 1
    /\ \E env \in EnvValues, hostOk \in BOOLEAN :
        LET setting == DisableSetting(env) IN
        IF StartupThrows(setting, hostOk)
        THEN /\ proc' = "failed"
             /\ UNCHANGED <<serverTools, registeredTools, nextHandle, coreToolsStatus>>
        ELSE /\ proc' = "running"
             /\ serverTools' = RegisterAllHost(CoreTable(setting), loadAllTools(files))
             /\ registeredTools' = registerAllTools(loadAllTools(files))
             /\ nextHandle' = Cardinality(DOMAIN files) + 1
             /\ coreToolsStatus' = CoreToolsStatus(setting)
    /\ UNCHANGED <<cachedSchema, schemaFetchError, getSchemaCalls, schemaLog,
                   files, pc, req, calls, result, pre, leftBehind, inv, lastUpdate>>

\* the process exits: everything in memory is gone, the files stay
Stop ==
    /\ proc = "running"
    /\ pc = "idle"
    /\ proc' = "stopped"
    /\ serverTools' = EmptyMap
    /\ registeredTools' = EmptyMap
    /\ nextHandle' = 1
    /\ coreToolsStatus' = "not started"
    /\ inv' = NoInv
    /\ lastUpdate' = EmptyMap
    /\ UNCHANGED <<cachedSchema, schemaFetchError, getSchemaCalls, schemaLog,
                   starts, files, pc, req, calls, result, pre, leftBehind>>

(***************************************************************************)
(* withErrorHandling: a throw inside the operation becomes an error result *)
(***************************************************************************)
Throw(text) ==
    /\ pc' = "done"
    /\ result' = Err(text)

Return(text) ==
    /\ pc' = "done"
    /\ result' = Ok(text)

(***************************************************************************)
(* save_query handler, step by step.                                       *)
(***************************************************************************)
SaveBegin(p) ==
    /\ proc = "running"
    /\ pc = "idle"
    /\ CoreToolRegistered("save_query")
    /\ nextHandle <= MaxHandles
    /\ pc' = "save_check"
    /\ req' = [op |-> "save", params |-> p]
    /\ calls' = <<>>
    /\ result' = NoResult
    /\ pre' = Snapshot
    /\ UNCHANGED <<cachedSchema, schemaFetchError, getSchemaCalls, schemaLog,
                   proc, coreToolsStatus, starts, inv, lastUpdate, files, serverTools, registeredTools, nextHandle, leftBehind>>

\* mutant: a name that has a file counts as existing
toolExistsInStore ==
    req.params.tool_name \in (DOMAIN registeredTools) \cup (DOMAIN files)

toolExists == req.params.tool_name \in DOMAIN registeredTools
isUpdate == toolExists /\ OverwriteFlag(req.params)
isCreate == ~toolExists

\* the existence check and the schema check
SaveCheck ==
    /\ pc = "save_check"
    /\ IF toolExists /\ ~OverwriteFlag(req.params)
       THEN Throw("already exists")
       ELSE IF ~validateJsonSchema(req.params.parameter_schema)
            THEN Throw("Invalid parameter_schema")
            ELSE /\ pc' = "save_persist"
                 /\ UNCHANGED result
    /\ UNCHANGED <<cachedSchema, schemaFetchError, getSchemaCalls, schemaLog,
                   proc, coreToolsStatus, starts, inv, lastUpdate, files, serverTools, registeredTools, nextHandle,
                   req, calls, pre, leftBehind>>

\* mutant: a failed write is swallowed and the save goes on to registration
SavePersistSwallow ==
    /\ pc = "save_persist"
    /\ calls' = Append(calls, "saveToolToFile")
    /\ \E writeOk \in BOOLEAN :
        LET out == saveToolToFile(files, req.params.tool_name,
                                  BuildToolConfig(req.params), writeOk) IN
        /\ files' = out.dir
        /\ pc' = IF isCreate THEN "save_register" ELSE "save_update"
        /\ leftBehind' = leftBehind \ {req.params.tool_name}
        /\ UNCHANGED result
    /\ UNCHANGED <<cachedSchema, schemaFetchError, getSchemaCalls, schemaLog,
                   proc, coreToolsStatus, starts, inv, lastUpdate, serverTools, registeredTools, nextHandle, req, pre>>

\* saveToolToFile(params.tool_name, toolConfig)
SavePersist ==
    /\ pc = "save_persist"
    /\ calls' = Append(calls, "saveToolToFile")
    /\ \E writeOk \in BOOLEAN :
        LET out == saveToolToFile(files, req.params.tool_name,
                                  BuildToolConfig(req.params), writeOk) IN
        /\ files' = out.dir
        /\ IF out.threw
           THEN /\ Throw("Failed to save tool")
                /\ UNCHANGED leftBehind
           ELSE /\ pc' = IF isCreate THEN "save_register" ELSE "save_update"
                /\ leftBehind' = leftBehind \ {req.params.tool_name}
                /\ UNCHANGED result
    /\ UNCHANGED <<cachedSchema, schemaFetchError, getSchemaCalls, schemaLog,
                   proc, coreToolsStatus, starts, inv, lastUpdate, serverTools, registeredTools, nextHandle, req, pre>>

\* mutant: the registry entry is set before server.registerTool is called
SaveRegisterSetFirst ==
    /\ pc = "save_register"
    /\ calls' = Append(calls, "registerTool")
    /\ registeredTools' = MapSet(registeredTools, req.params.tool_name,
                                 HandleEntry(nextHandle))
    /\ \E hostOk \in BOOLEAN :
        IF RegisterToolThrows(serverTools, req.params.tool_name, hostOk)
        THEN /\ Throw("registration failed")
             /\ leftBehind' = leftBehind \cup {req.params.tool_name}
             /\ UNCHANGED <<serverTools, nextHandle>>
        ELSE /\ serverTools' = MapSet(serverTools, req.params.tool_name,
                                      DynamicEntry(nextHandle, BuildToolConfig(req.params)))
             /\ nextHandle' = nextHandle + 1
             /\ Return("Successfully created tool")
             /\ UNCHANGED leftBehind
    /\ UNCHANGED <<cachedSchema, schemaFetchError, getSchemaCalls, schemaLog,
                   proc, coreToolsStatus, starts, inv, lastUpdate, files, req, pre>>

\* registerToolWithServer
SaveRegister ==
    /\ pc = "save_register"
    /\ calls' = Append(calls, "registerTool")
    /\ \E hostOk \in BOOLEAN :
        IF RegisterToolThrows(serverTools, req.params.tool_name, hostOk)
        THEN /\ Throw("registration failed")
             /\ leftBehind' = leftBehind \cup {req.params.tool_name}
             /\ UNCHANGED <<serverTools, registeredTools, nextHandle>>
        ELSE /\ serverTools' = MapSet(serverTools, req.params.tool_name,
                                      DynamicEntry(nextHandle, BuildToolConfig(req.params)))
             /\ registeredTools' = MapSet(registeredTools, req.params.tool_name,
                                          HandleEntry(nextHandle))
             /\ nextHandle' = nextHandle + 1
             /\ Return("Successfully created tool")
             /\ UNCHANGED leftBehind
    /\ UNCHANGED <<cachedSchema, schemaFetchError, getSchemaCalls, schemaLog,
                   proc, coreToolsStatus, starts, inv, lastUpdate, files, req, pre>>

\* mutant: update replaces the metadata and keeps the callback it had
HandleUpdateKeepCallback(table, h, config) == table

\* the host table after handle.update({title, description, paramsSchema, callback})
HandleUpdate(table, h, config) ==
    [n \in DOMAIN table |->
        IF table[n].kind = "dynamic" /\ table[n].handle = h
        THEN DynamicEntry(h, config)
        ELSE table[n]]

\* updateExistingTool: existingTool.update(...) on the registry entry
SaveUpdate ==
    /\ pc = "save_update"
    /\ LET existingTool == registeredTools[req.params.tool_name] IN
        IF existingTool.kind # "handle"
        THEN \* the entry is a SavedToolConfig: it has no update method
             /\ Throw("existingTool.update is not a function")
             /\ UNCHANGED <<serverTools, calls, lastUpdate>>
        ELSE /\ calls' = Append(calls, "update")
             /\ \E hostOk \in BOOLEAN :
                 IF hostOk
                 THEN /\ serverTools' = HandleUpdate(serverTools, existingTool.handle,
                                                     BuildToolConfig(req.params))
                      /\ lastUpdate' = MapSet(lastUpdate, req.params.tool_name,
                                              BuildToolConfig(req.params))
                      /\ Return("Successfully updated tool")
                 ELSE /\ Throw("update failed")
                      /\ UNCHANGED <<serverTools, lastUpdate>>
    /\ UNCHANGED <<cachedSchema, schemaFetchError, getSchemaCalls, schemaLog,
                   proc, coreToolsStatus, starts, inv, files, registeredTools, nextHandle, req, pre, leftBehind>>

(***************************************************************************)
(* delete_saved_query handler, step by step: the deny-list and the lookup, *)
(* then host-layer removal, then the registry, then the file.              *)
(***************************************************************************)
\* mutant: no deny-list
ProtectedToolsNone == {}

ProtectedTools == CoreTools

DeleteBegin(n) ==
    /\ proc = "running"
    /\ pc = "idle"
    /\ CoreToolRegistered("delete_saved_query")
    /\ pc' = "delete_check"
    /\ req' = [op |-> "delete", params |-> [tool_name |-> n]]
    /\ calls' = <<>>
    /\ result' = NoResult
    /\ pre' = Snapshot
    /\ UNCHANGED <<cachedSchema, schemaFetchError, getSchemaCalls, schemaLog,
                   proc, coreToolsStatus, starts, inv, lastUpdate, files, serverTools, registeredTools, nextHandle, leftBehind>>

\* mutant: a name that is not registered is passed on to the file deletion
DeleteCheckNoLookup ==
    /\ pc = "delete_check"
    /\ IF req.params.tool_name \in ProtectedTools
       THEN Throw("Cannot delete core tool")
       ELSE /\ pc' = IF req.params.tool_name \in DOMAIN registeredTools
                     THEN "delete_remove" ELSE "delete_file"
            /\ UNCHANGED result
    /\ UNCHANGED <<cachedSchema, schemaFetchError, getSchemaCalls, schemaLog,
                   proc, coreToolsStatus, starts, inv, lastUpdate, files, serverTools, registeredTools, nextHandle,
                   req, calls, pre, leftBehind>>

DeleteCheck ==
    /\ pc = "delete_check"
    /\ IF req.params.tool_name \in ProtectedTools
       THEN Throw("Cannot delete core tool")
       ELSE IF req.params.tool_name \notin DOMAIN registeredTools
            THEN Throw("not found")
            ELSE /\ pc' = "delete_remove"
                 /\ UNCHANGED result
    /\ UNCHANGED <<cachedSchema, schemaFetchError, getSchemaCalls, schemaLog,
                   proc, coreToolsStatus, starts, inv, lastUpdate, files, serverTools, registeredTools, nextHandle,
                   req, calls, pre, leftBehind>>

\* mutant: remove() leaves the tool in the host table
HandleRemoveNothing(table, h) == table

\* the host table after handle.remove()
HandleRemove(table, h) ==
    [n \in {m \in DOMAIN table : ~(table[m].kind = "dynamic" /\ table[m].handle = h)} |->
        table[n]]

\* mutant: a failed host-layer removal is ignored and the delete goes on
DeleteRemoveIgnoreFailure ==
    /\ pc = "delete_remove"
    /\ calls' = Append(calls, "remove")
    /\ \E hostOk \in BOOLEAN :
        serverTools' = IF hostOk /\ registeredTools[req.params.tool_name].kind = "handle"
                       THEN HandleRemove(serverTools, registeredTools[req.params.tool_name].handle)
                       ELSE serverTools
    /\ pc' = "delete_unregister"
    /\ lastUpdate' = MapDelete(lastUpdate, req.params.tool_name)
    /\ UNCHANGED <<cachedSchema, schemaFetchError, getSchemaCalls, schemaLog,
                   proc, coreToolsStatus, starts, inv, files, registeredTools, nextHandle, req, result, pre, leftBehind>>

\* step 1: registeredTool.remove()
DeleteRemove ==
    /\ pc = "delete_remove"
    /\ LET registeredTool == registeredTools[req.params.tool_name] IN
        IF registeredTool.kind # "handle"
        THEN \* the entry is a SavedToolConfig: it has no remove method
             /\ Throw("registeredTool.remove is not a function")
             /\ UNCHANGED <<serverTools, calls, lastUpdate>>
        ELSE /\ calls' = Append(calls, "remove")
             /\ \E hostOk \in BOOLEAN :
                 IF hostOk
                 THEN /\ serverTools' = HandleRemove(serverTools, registeredTool.handle)
                      /\ lastUpdate' = MapDelete(lastUpdate, req.params.tool_name)
                      /\ pc' = "delete_unregister"
                      /\ UNCHANGED result
                 ELSE /\ Throw("removal failed")
                      /\ UNCHANGED <<serverTools, lastUpdate>>
    /\ UNCHANGED <<cachedSchema, schemaFetchError, getSchemaCalls, schemaLog,
                   proc, coreToolsStatus, starts, inv, files, registeredTools, nextHandle, req, pre, leftBehind>>

\* step 2: registeredTools.delete(tool_name)
\* mutant: the registry entry is kept and the file is deleted all the same
DeleteUnregisterKeepsEntry ==
    /\ pc = "delete_unregister"
    /\ calls' = Append(calls, "registeredTools.delete")
    /\ pc' = "delete_file"
    /\ UNCHANGED <<cachedSchema, schemaFetchError, getSchemaCalls, schemaLog,
                   proc, coreToolsStatus, starts, inv, lastUpdate, files, serverTools,
                   registeredTools, nextHandle, req, result, pre, leftBehind>>

DeleteUnregister ==
    /\ pc = "delete_unregister"
    /\ calls' = Append(calls, "registeredTools.delete")
    /\ registeredTools' = MapDelete(registeredTools, req.params.tool_name)
    /\ pc' = "delete_file"
    /\ UNCHANGED <<cachedSchema, schemaFetchError, getSchemaCalls, schemaLog,
                   proc, coreToolsStatus, starts, inv, lastUpdate, files, serverTools, nextHandle, req, result, pre, leftBehind>>

\* step 3: deleteToolFile(tool_name)
DeleteFile ==
    /\ pc = "delete_file"
    /\ calls' = Append(calls, "deleteToolFile")
    /\ \E unlinkOk \in BOOLEAN :
        LET out == deleteToolFile(files, req.params.tool_name, unlinkOk) IN
        /\ files' = out.dir
        /\ leftBehind' = leftBehind \ ((DOMAIN files) \ (DOMAIN out.dir))
        /\ IF out.threw
           THEN Throw("Failed to delete tool file")
           ELSE Return("Successfully deleted saved query")
    /\ UNCHANGED <<cachedSchema, schemaFetchError, getSchemaCalls, schemaLog,
                   proc, coreToolsStatus, starts, inv, lastUpdate, serverTools, registeredTools, nextHandle, req, pre>>


\* the handler's result has been delivered to the host layer
Finish ==
    /\ pc = "done"
    /\ pc' = "idle"
    /\ req' = NoReq
    /\ calls' = <<>>
    /\ result' = NoResult
    /\ pre' = NoPre
    /\ UNCHANGED <<cachedSchema, schemaFetchError, getSchemaCalls, schemaLog,
                   proc, coreToolsStatus, starts, inv, lastUpdate, files, serverTools, registeredTools, nextHandle, leftBehind>>

(***************************************************************************)
(* Dynamic tool invocation: the host layer calls the callback bound to the *)
(* tool with the arguments object; the callback validates, extracts the    *)
(* variables and awaits the GraphQL client.                                *)
(***************************************************************************)
QuerySearch == <<"$", "i", "d", " ", "$", "l", "i", "m", "i", "t">>
QuerySeparator == <<"$", "i", "d", " ", "$", "s", "e", "p">>

\* mutant: every validated parameter is sent
extractVariablesAll(query, params) == params

\* extractVariables(query, params): every $name of the query that has a
\* defined value in params
extractVariables(query, params) ==
    LET matches == MatchAll(query, 1)
        names == {matches[i] : i \in 1..Len(matches)}
    IN [k \in {n \in names : n \in DOMAIN params /\ params[n] # Undefined} |-> params[k]]

\* mutant: a thrown value that is not an Error is thrown on to the caller
withErrorHandlingRethrow(operation, outcome) ==
    [threw |-> outcome.kind = "value", isError |-> outcome.kind # "returned",
     operation |-> operation, text |-> outcome.text, paths |-> outcome.paths]

\* withErrorHandling(operation, fn), given what fn did (returned a value, threw
\* an Error, threw a value that is not an Error): the value as a result, or
\* 'Error <operation>: <message>' with 'Unknown error' for a non-Error
withErrorHandling(operation, outcome) ==
    [threw |-> FALSE, isError |-> outcome.kind # "returned",
     operation |-> operation,
     text |-> IF outcome.kind = "value" THEN "Unknown error" ELSE outcome.text,
     paths |-> outcome.paths]

ExecutingTool(config) == <<"executing tool", config.name>>

\* what client.request can do: resolve, reject with an Error, reject with a
\* value that is not an Error
EndpointOutcomes ==
    { [kind |-> "returned", text |-> "data", paths |-> {}],
      [kind |-> "error", text |-> "GraphQL syntax error", paths |-> {}],
      [kind |-> "value", text |-> "a thrown value", paths |-> {}] }

\* the arguments objects the host layer passes
InvokeArgs ==
    {a \in UNION {[S -> {JStr("u1"), JNum(5)}] : S \in SUBSET {"id", "limit", "tag"}} :
        /\ "limit" \in DOMAIN a => a["limit"].t = "number"
        /\ "tag" \in DOMAIN a => a["tag"].t = "string"}

\* the result of a callback that is still awaiting the endpoint
Pending ==
    [threw |-> FALSE, isError |-> FALSE, operation |-> <<>>, text |-> "pending",
     paths |-> {}]

\* the ZodError of a failed parse, rethrown as 'Parameter validation error: <paths>'
ValidationError(config, paths) ==
    withErrorHandling(ExecutingTool(config),
                      [kind |-> "error", text |-> "Parameter validation error",
                       paths |-> paths])

Request(config, params) ==
    [query |-> config.graphql_query,
     variables |-> extractVariables(config.graphql_query, params)]

\* mutant: the request is sent whether or not the parameters passed validation
InvokeBeginSendAnyway(n, args) ==
    /\ proc = "running"
    /\ pc = "idle"
    /\ inv.status = "none"
    /\ n \in HostDynamic
    /\ LET config == serverTools[n].config
           paramSchema == convertJsonSchemaToZod(config.parameter_schema).zod
           parsed == Parse(paramSchema, args)
       IN inv' = [status |-> "awaiting",
                  tool |-> n, args |-> args, config |-> config,
                  updated |-> n \in DOMAIN lastUpdate,
                  latest |-> IF n \in DOMAIN lastUpdate THEN lastUpdate[n] ELSE config,
                  sent |-> <<Request(config, parsed.value)>>,
                  outcome |-> "none",
                  result |-> Pending]
    /\ UNCHANGED <<cachedSchema, schemaFetchError, getSchemaCalls, schemaLog,
                   proc, coreToolsStatus, starts, lastUpdate, files, serverTools, registeredTools,
                   nextHandle, pc, req, calls, result, pre, leftBehind>>

\* the callback up to its await: paramSchema.parse(params), extractVariables,
\* client.request(query, variables)
InvokeBegin(n, args) ==
    /\ proc = "running"
    /\ pc = "idle"
    /\ inv.status = "none"
    /\ n \in HostDynamic
    /\ LET config == serverTools[n].config
           paramSchema == convertJsonSchemaToZod(config.parameter_schema).zod
           parsed == Parse(paramSchema, args)
       IN inv' = [status |-> IF parsed.ok THEN "awaiting" ELSE "done",
                  tool |-> n, args |-> args, config |-> config,
                  updated |-> n \in DOMAIN lastUpdate,
                  latest |-> IF n \in DOMAIN lastUpdate THEN lastUpdate[n] ELSE config,
                  sent |-> IF parsed.ok THEN <<Request(config, parsed.value)>> ELSE <<>>,
                  outcome |-> "none",
                  result |-> IF parsed.ok THEN Pending
                             ELSE ValidationError(config, parsed.paths)]
    /\ UNCHANGED <<cachedSchema, schemaFetchError, getSchemaCalls, schemaLog,
                   proc, coreToolsStatus, starts, lastUpdate, files, serverTools, registeredTools,
                   nextHandle, pc, req, calls, result, pre, leftBehind>>

\* mutant: when the tool was redefined while the request was pending, the
\* callback sends the new definition's request and returns its result
InvokeRespondRerun ==
    /\ inv.status = "awaiting"
    /\ pc = "idle"
    /\ \E outcome \in EndpointOutcomes :
        LET current == IF inv.tool \in HostDynamic
                       THEN serverTools[inv.tool].config ELSE inv.config
        IN  inv' = [inv EXCEPT !.status = "done",
                               !.outcome = outcome.kind,
                               !.sent = IF current = inv.config THEN inv.sent
                                        ELSE Append(inv.sent, Request(current, inv.args)),
                               !.result = withErrorHandling(ExecutingTool(current), outcome)]
    /\ UNCHANGED <<cachedSchema, schemaFetchError, getSchemaCalls, schemaLog,
                   proc, coreToolsStatus, starts, lastUpdate, files, serverTools, registeredTools,
                   nextHandle, pc, req, calls, result, pre, leftBehind>>

\* the awaited client.request settles and the callback returns
InvokeRespond ==
    /\ inv.status = "awaiting"
    /\ pc = "idle"
    /\ \E outcome \in EndpointOutcomes :
        inv' = [inv EXCEPT !.status = "done",
                           !.outcome = outcome.kind,
                           !.result = withErrorHandling(ExecutingTool(inv.config), outcome)]
    /\ UNCHANGED <<cachedSchema, schemaFetchError, getSchemaCalls, schemaLog,
                   proc, coreToolsStatus, starts, lastUpdate, files, serverTools, registeredTools,
                   nextHandle, pc, req, calls, result, pre, leftBehind>>

\* the callback's result has been delivered to the host layer
InvokeFinish ==
    /\ inv.status = "done"
    /\ inv' = NoInv
    /\ UNCHANGED <<cachedSchema, schemaFetchError, getSchemaCalls, schemaLog,
                   proc, coreToolsStatus, starts, lastUpdate, files, serverTools, registeredTools,
                   nextHandle, pc, req, calls, result, pre, leftBehind>>

Next ==
    \/ Startup
    \/ Stop
    \/ \E p \in SaveParams : SaveBegin(p)
    \/ SaveCheck
    \/ SavePersist
    \/ SaveRegister
    \/ SaveUpdate
    \/ \E n \in Names : DeleteBegin(n)
    \/ DeleteCheck
    \/ DeleteRemove
    \/ DeleteUnregister
    \/ DeleteFile
    \/ Finish

Spec == Init /\ [][Next]_vars

(***************************************************************************)
(* The same server started on an empty tools directory.                    *)
(***************************************************************************)
InitFresh == Init /\ files = EmptyMap

SpecFresh == InitFresh /\ [][Next]_vars

\* A file name as the pieces of text around each '.json' in it.
\* `${toolName}.json` of a name without '.json' (tool names are snake_case)
ToolFileName(toolName) == <<toolName, "">>

\* file.endsWith('.json')
EndsWithJson(file) == Len(file) >= 2 /\ file[Len(file)] = ""

\* file.replace('.json', ''): the first '.json' is taken out
ReplaceJson(file) ==
    IF Len(file) < 2 THEN file
    ELSE <<file[1] \o file[2]>> \o SubSeq(file, 3, Len(file))

(***************************************************************************)
(* The same server with one saved tool name and with invocations of the    *)
(* saved tool.                                                             *)
(***************************************************************************)
InvokeNames == {"get_user"}

InvokeSaveParams ==
    { [tool_name |-> n, description |-> i.description,
       graphql_query |-> i.graphql_query,
       parameter_schema |-> i.parameter_schema, overwrite |-> o] :
      n \in InvokeNames,
      i \in { [description |-> "first", graphql_query |-> QueryUser,
               parameter_schema |-> SchemaId],
              [description |-> "search", graphql_query |-> QuerySearch,
               parameter_schema |-> SchemaSearch],
              [description |-> "open", graphql_query |-> QueryUser,
               parameter_schema |-> SchemaNoProps],
              [description |-> "separator", graphql_query |-> QuerySeparator,
               parameter_schema |-> SchemaSeparator],
              [description |-> "null", graphql_query |-> QueryUser,
               parameter_schema |-> JNull],
              [description |-> "string", graphql_query |-> QueryUser,
               parameter_schema |-> SchemaNotObject],
              [description |-> "bad", graphql_query |-> QueryUser,
               parameter_schema |-> SchemaBadType] },
      o \in {"true", "omitted"} }

\* a record whose variables list was not derived from its query
StoredStale(n) ==
    Stringify([name |-> n, description |-> "stale", graphql_query |-> QuerySearch,
               parameter_schema |-> SchemaSearch, pagination_config |-> Undefined,
               idempotency |-> Undefined, variables |-> <<"id">>])

InvokeStores == { EmptyMap, [n \in InvokeNames |-> StoredStale(n)] }

InitInvoke ==
    /\ proc = "stopped"
    /\ starts = 0
    /\ files \in InvokeStores
    /\ serverTools = EmptyMap
    /\ registeredTools = EmptyMap
    /\ nextHandle = 1
    /\ coreToolsStatus = "not started"
    /\ pc = "idle"
    /\ req = NoReq
    /\ calls = <<>>
    /\ result = NoResult
    /\ pre = NoPre
    /\ leftBehind = {}
    /\ inv = NoInv
    /\ lastUpdate = EmptyMap
    /\ SchemaServiceInit

\* a callback's result is delivered before the next request is taken up
NextInvoke ==
    \/ inv.status # "done" /\ Startup
    \/ inv.status # "done" /\ Stop
    \/ \E p \in InvokeSaveParams : inv.status # "done" /\ SaveBegin(p)
    \/ inv.status # "done" /\ SaveCheck
    \/ inv.status # "done" /\ SavePersist
    \/ inv.status # "done" /\ SaveRegister
    \/ inv.status # "done" /\ SaveUpdate
    \/ \E n \in InvokeNames : inv.status # "done" /\ DeleteBegin(n)
    \/ inv.status # "done" /\ DeleteCheck
    \/ inv.status # "done" /\ DeleteRemove
    \/ inv.status # "done" /\ DeleteUnregister
    \/ inv.status # "done" /\ DeleteFile
    \/ inv.status # "done" /\ Finish
    \/ \E n \in InvokeNames, args \in InvokeArgs : InvokeBegin(n, args)
    \/ InvokeRespond
    \/ InvokeFinish

SpecInvoke == InitInvoke /\ [][NextInvoke]_vars

(***************************************************************************)
(* The Schema Converter on its own: a parameter schema is converted and    *)
(* the validator parses an arguments object, as createDynamicToolHandler   *)
(* and its callback do.                                                    *)
(***************************************************************************)
ConvertSchemas ==
    {JNull, SchemaNotObject, SchemaBadType, SchemaEmpty, SchemaNoProps,
     SchemaId, SchemaLimit, SchemaSearch, SchemaSeparator}

InitConvert ==
    /\ proc = "stopped"
    /\ starts = 0
    /\ files = EmptyMap
    /\ serverTools = EmptyMap
    /\ registeredTools = EmptyMap
    /\ nextHandle = 1
    /\ coreToolsStatus = "not started"
    /\ pc = "convert"
    /\ \E schema \in ConvertSchemas, input \in InvokeArgs :
          req = [op |-> "convert", params |-> [schema |-> schema, input |-> input]]
    /\ calls = <<>>
    /\ result = NoResult
    /\ pre = NoPre
    /\ leftBehind = {}
    /\ inv = NoInv
    /\ lastUpdate = EmptyMap
    /\ SchemaServiceInit

\* const paramSchema = convertJsonSchemaToZod(toolConfig.parameter_schema)
Convert ==
    /\ pc = "convert"
    /\ LET out == convertJsonSchemaToZod(req.params.schema) IN
        /\ result' = out
        /\ pc' = IF out.threw THEN "convert_threw" ELSE "converted"
    /\ UNCHANGED <<cachedSchema, schemaFetchError, getSchemaCalls, schemaLog,
                   proc, coreToolsStatus, starts, inv, lastUpdate, files, serverTools,
                   registeredTools, nextHandle, req, calls, pre, leftBehind>>

\* paramSchema.parse(params)
ParseInput ==
    /\ pc = "converted"
    /\ result' = [threw |-> FALSE, zod |-> result.zod,
                  parsed |-> Parse(result.zod, req.params.input)]
    /\ pc' = "parsed"
    /\ UNCHANGED <<cachedSchema, schemaFetchError, getSchemaCalls, schemaLog,
                   proc, coreToolsStatus, starts, inv, lastUpdate, files, serverTools,
                   registeredTools, nextHandle, req, calls, pre, leftBehind>>

\* convertJsonSchemaToMcpZod: one field per declared property of an object
\* schema, built by createZodFieldFromJsonSchema; the host layer validates the
\* arguments against z.object of these fields before it calls the callback
convertJsonSchemaToMcpZod(schema) ==
    IF schema.t = "object" /\ schema.type = "object" /\ schema.hasProperties
    THEN [k \in DOMAIN schema.properties |->
             createZodFieldFromJsonSchema(schema.properties[k])]
    ELSE EmptyMap

\* the host layer's check of the same arguments against the inputSchema the
\* tool was registered with
HostValidate ==
    /\ pc = "parsed"
    /\ result' = [threw |-> FALSE, zod |-> result.zod, parsed |-> result.parsed,
                  host |-> Parse(ZObject(convertJsonSchemaToMcpZod(req.params.schema)),
                                 req.params.input)]
    /\ pc' = "host_checked"
    /\ UNCHANGED <<cachedSchema, schemaFetchError, getSchemaCalls, schemaLog,
                   proc, coreToolsStatus, starts, inv, lastUpdate, files, serverTools,
                   registeredTools, nextHandle, req, calls, pre, leftBehind>>

NextConvert ==
    \/ Convert
    \/ ParseInput
    \/ HostValidate

SpecConvert == InitConvert /\ [][NextConvert]_vars

(***************************************************************************)
(* The persistence store on its own (storage.ts): definitions are saved,   *)
(* loaded, deleted and enumerated over a tools directory that may hold     *)
(* records the server did not write.                                       *)
(***************************************************************************)
\* the definitions given to saveToolToFile: with and without the optional fields
StoreConfigs(n) ==
    { [BuildToolConfig([tool_name |-> n, description |-> "first",
                        graphql_query |-> QueryUser, parameter_schema |-> SchemaId,
                        overwrite |-> "omitted"])
          EXCEPT !.pagination_config = pg, !.idempotency = id] :
      pg \in {Undefined, [t |-> "object", style |-> "relay", page_size |-> 20]},
      id \in {Undefined, [t |-> "object", cache_key_params |-> <<"id">>, ttl_seconds |-> 300]} }

\* the tools directories the store may find
StoreDirs ==
    UNION { [S -> {"first", "null schema", "corrupt", "bad json", "null"}] :
            S \in SUBSET UserNames }

StoreRecord(n, kind) ==
    CASE kind = "first" -> StoredFirst(n)
      [] kind = "null schema" -> StoredNull(n)
      [] kind = "corrupt" -> CorruptRecord
      [] kind = "bad json" -> BadJson
      [] kind = "null" -> JNull

InitStore ==
    /\ proc = "stopped"
    /\ starts = 0
    /\ \E d \in StoreDirs : files = [n \in DOMAIN d |-> StoreRecord(n, d[n])]
    /\ serverTools = EmptyMap
    /\ registeredTools = EmptyMap
    /\ nextHandle = 1
    /\ coreToolsStatus = "not started"
    /\ pc = "idle"
    /\ req = NoReq
    /\ calls = <<>>
    /\ result = NoResult
    /\ pre = NoPre
    /\ leftBehind = {}
    /\ inv = NoInv
    /\ lastUpdate = EmptyMap
    /\ SchemaServiceInit

\* saveToolToFile(toolName, config)
StoreSave(n, config) ==
    /\ pc = "idle"
    /\ \E writeOk \in BOOLEAN :
        LET out == saveToolToFile(files, n, config, writeOk) IN
        /\ files' = out.dir
        /\ result' = [threw |-> out.threw, value |-> Undefined]
        /\ pc' = IF out.threw THEN "done" ELSE "stored"
    /\ req' = [op |-> "storeSave", params |-> [tool_name |-> n, config |-> config]]
    /\ calls' = <<>>
    /\ pre' = Snapshot
    /\ UNCHANGED <<cachedSchema, schemaFetchError, getSchemaCalls, schemaLog,
                   proc, coreToolsStatus, starts, inv, lastUpdate, serverTools,
                   registeredTools, nextHandle, leftBehind>>

\* loadToolFromFile(toolName), on its own or right after a save
StoreLoad(n) ==
    /\ pc \in {"idle", "stored"}
    /\ result' = loadToolFromFile(files, n)
    /\ req' = IF pc = "stored" THEN req
              ELSE [op |-> "storeLoad", params |-> [tool_name |-> n]]
    /\ calls' = <<n>>
    /\ pre' = Snapshot
    /\ pc' = "done"
    /\ UNCHANGED <<cachedSchema, schemaFetchError, getSchemaCalls, schemaLog,
                   proc, coreToolsStatus, starts, inv, lastUpdate, files, serverTools,
                   registeredTools, nextHandle, leftBehind>>

\* deleteToolFile(toolName)
StoreDelete(n) ==
    /\ pc = "idle"
    /\ \E unlinkOk \in BOOLEAN :
        LET out == deleteToolFile(files, n, unlinkOk) IN
        /\ files' = out.dir
        /\ result' = [threw |-> out.threw, value |-> Undefined]
    /\ req' = [op |-> "storeDelete", params |-> [tool_name |-> n]]
    /\ calls' = <<>>
    /\ pre' = Snapshot
    /\ pc' = "done"
    /\ UNCHANGED <<cachedSchema, schemaFetchError, getSchemaCalls, schemaLog,
                   proc, coreToolsStatus, starts, inv, lastUpdate, serverTools,
                   registeredTools, nextHandle, leftBehind>>

\* mutant: invalid records are skipped and the valid ones returned
StoreLoadAllPartial ==
    /\ pc = "idle"
    /\ result' = [threw |-> FALSE,
                  value |-> [n \in {x \in DOMAIN files : ~loadToolFromFile(files, x).threw} |->
                                ParseConfig(files[n])]]
    /\ req' = [op |-> "storeLoadAll"]
    /\ calls' = <<>>
    /\ pre' = Snapshot
    /\ pc' = "done"
    /\ UNCHANGED <<cachedSchema, schemaFetchError, getSchemaCalls, schemaLog,
                   proc, coreToolsStatus, starts, inv, lastUpdate, files, serverTools,
                   registeredTools, nextHandle, leftBehind>>

\* loadAllTools(): readdirSync, then loadToolFromFile for every .json file
StoreLoadAll ==
    /\ pc = "idle"
    /\ \E readdirOk \in BOOLEAN :
        result' = IF ~readdirOk \/ LoadAllFails(files)
                  THEN [threw |-> TRUE, value |-> Undefined]
                  ELSE [threw |-> FALSE, value |-> loadAllTools(files)]
    /\ req' = [op |-> "storeLoadAll"]
    /\ calls' = <<>>
    /\ pre' = Snapshot
    /\ pc' = "done"
    /\ UNCHANGED <<cachedSchema, schemaFetchError, getSchemaCalls, schemaLog,
                   proc, coreToolsStatus, starts, inv, lastUpdate, files, serverTools,
                   registeredTools, nextHandle, leftBehind>>

NextStore ==
    \/ \E n \in UserNames : \E config \in StoreConfigs(n) : StoreSave(n, config)
    \/ \E n \in UserNames : StoreLoad(n)
    \/ \E n \in UserNames : StoreDelete(n)
    \/ StoreLoadAll
    \/ Finish

SpecStore == InitStore /\ [][NextStore]_vars

(***************************************************************************)
(* Two save requests in flight on a running server.  A request waits in    *)
(* the event queue until its handler is called; the save handler is a      *)
(* synchronous function, so once called it runs to its return before any   *)
(* other handler is called.  Here pc, req and result are kept per request. *)
(***************************************************************************)
Slots == 1..MaxSlots

SlotSaveParams ==
    { [tool_name |-> "get_user", description |-> i.description,
       graphql_query |-> i.graphql_query,
       parameter_schema |-> i.parameter_schema, overwrite |-> o] :
      i \in { [description |-> "first", graphql_query |-> QueryUser,
               parameter_schema |-> SchemaId],
              [description |-> "second", graphql_query |-> QueryItems,
               parameter_schema |-> SchemaLimit],
              [description |-> "bad", graphql_query |-> QueryUser,
               parameter_schema |-> SchemaBadType] },
      o \in {"true", "omitted"} }

InitSlots ==
    /\ proc = "running"
    /\ starts = 1
    /\ files = EmptyMap
    /\ serverTools = CoreTable("none")
    /\ registeredTools = EmptyMap
    /\ nextHandle = 1
    /\ coreToolsStatus = CoreToolsStatus("none")
    /\ pc = [s \in Slots |-> "idle"]
    /\ req = [s \in Slots |-> NoReq]
    /\ calls = <<>>
    /\ result = [s \in Slots |-> NoResult]
    /\ pre = NoPre
    /\ leftBehind = {}
    /\ inv = NoInv
    /\ lastUpdate = EmptyMap
    /\ SchemaServiceInit

\* a save_query request arrives and waits for its handler to be called
SlotArrive(s, p) ==
    /\ pc[s] = "idle"
    /\ nextHandle <= MaxHandles
    /\ pc' = [pc EXCEPT ![s] = "queued"]
    /\ req' = [req EXCEPT ![s] = [op |-> "save", params |-> p]]
    /\ UNCHANGED <<cachedSchema, schemaFetchError, getSchemaCalls, schemaLog,
                   proc, coreToolsStatus, starts, inv, lastUpdate, files, serverTools,
                   registeredTools, nextHandle, calls, result, pre, leftBehind>>

\* one step of the save handler of request s: the checks, the write, the
\* registration or the update
SlotHandlerStepBody(s) ==
    LET p == req[s].params
        exists == p.tool_name \in DOMAIN registeredTools
        Ends(r) == /\ pc' = [pc EXCEPT ![s] = "done"]
                   /\ result' = [result EXCEPT ![s] = r]
        Goes(to) == /\ pc' = [pc EXCEPT ![s] = to]
                    /\ UNCHANGED result
    IN
    CASE pc[s] = "queued" ->
           /\ IF exists /\ ~OverwriteFlag(p)
              THEN Ends(Err("already exists"))
              ELSE IF ~validateJsonSchema(p.parameter_schema)
                   THEN Ends(Err("Invalid parameter_schema"))
                   ELSE Goes("save_persist")
           /\ UNCHANGED <<files, serverTools, registeredTools, nextHandle, lastUpdate>>
      [] pc[s] = "save_persist" ->
           /\ \E writeOk \in BOOLEAN :
               LET out == saveToolToFile(files, p.tool_name, BuildToolConfig(p), writeOk) IN
               /\ files' = out.dir
               /\ IF out.threw THEN Ends(Err("Failed to save tool"))
                  ELSE Goes(IF exists THEN "save_update" ELSE "save_register")
           /\ UNCHANGED <<serverTools, registeredTools, nextHandle, lastUpdate>>
      [] pc[s] = "save_register" ->
           /\ \E hostOk \in BOOLEAN :
               IF RegisterToolThrows(serverTools, p.tool_name, hostOk)
               THEN /\ Ends(Err("registration failed"))
                    /\ UNCHANGED <<serverTools, registeredTools, nextHandle>>
               ELSE /\ serverTools' = MapSet(serverTools, p.tool_name,
                                             DynamicEntry(nextHandle, BuildToolConfig(p)))
                    /\ registeredTools' = MapSet(registeredTools, p.tool_name,
                                                 HandleEntry(nextHandle))
                    /\ nextHandle' = nextHandle + 1
                    /\ Ends(Ok("Successfully created tool"))
           /\ UNCHANGED <<files, lastUpdate>>
      [] pc[s] = "save_update" ->
           /\ \E hostOk \in BOOLEAN :
               IF hostOk /\ registeredTools[p.tool_name].kind = "handle"
               THEN /\ serverTools' = HandleUpdate(serverTools,
                                                   registeredTools[p.tool_name].handle,
                                                   BuildToolConfig(p))
                    /\ lastUpdate' = MapSet(lastUpdate, p.tool_name, BuildToolConfig(p))
                    /\ Ends(Ok("Successfully updated tool"))
               ELSE /\ Ends(Err("update failed"))
                    /\ UNCHANGED <<serverTools, lastUpdate>>
           /\ UNCHANGED <<files, registeredTools, nextHandle>>

\* mutant: the handler gives up control between its steps
SlotHandlerStepYields(s) ==
    /\ pc[s] \in {"queued", "save_persist", "save_register", "save_update"}
    /\ SlotHandlerStepBody(s)
    /\ UNCHANGED <<cachedSchema, schemaFetchError, getSchemaCalls, schemaLog,
                   proc, coreToolsStatus, starts, inv, req, calls, pre, leftBehind>>

\* the handler of request s is called when no other handler is running, and
\* runs to its return
SlotHandlerStep(s) ==
    /\ pc[s] \in {"queued", "save_persist", "save_register", "save_update"}
    /\ \A o \in Slots \ {s} : pc[o] \in {"idle", "queued", "done"}
    /\ SlotHandlerStepBody(s)
    /\ UNCHANGED <<cachedSchema, schemaFetchError, getSchemaCalls, schemaLog,
                   proc, coreToolsStatus, starts, inv, req, calls, pre, leftBehind>>

\* the result of request s has been delivered
SlotFinish(s) ==
    /\ pc[s] = "done"
    /\ pc' = [pc EXCEPT ![s] = "idle"]
    /\ req' = [req EXCEPT ![s] = NoReq]
    /\ result' = [result EXCEPT ![s] = NoResult]
    /\ UNCHANGED <<cachedSchema, schemaFetchError, getSchemaCalls, schemaLog,
                   proc, coreToolsStatus, starts, inv, lastUpdate, files, serverTools,
                   registeredTools, nextHandle, calls, pre, leftBehind>>

NextSlots ==
    \/ \E s \in Slots, p \in SlotSaveParams : SlotArrive(s, p)
    \/ \E s \in Slots : SlotHandlerStep(s)
    \/ \E s \in Slots : SlotFinish(s)

SpecSlots == InitSlots /\ [][NextSlots]_vars

(***************************************************************************)
(* schemaService.ts: getSchema and clearSchemaCache.  getSchema is an      *)
(* async function: it runs to its await of client.request, and from the    *)
(* settled request to its return, without giving up control; several       *)
(* calls may be awaiting at once.                                          *)
(***************************************************************************)
\* the GraphQLSchema instance buildClientSchema makes of the k-th response
SchemaInstance(k) == [t |-> "schema", id |-> k]

\* how the awaited introspection request settles
IntrospectionOutcomes ==
    {"__schema", "missing __schema", "rejected with an Error", "rejected with a value"}

InitSchema ==
    /\ proc = "running"
    /\ starts = 1
    /\ files = EmptyMap
    /\ serverTools = CoreTable("none")
    /\ registeredTools = EmptyMap
    /\ nextHandle = 1
    /\ coreToolsStatus = CoreToolsStatus("none")
    /\ pc = "idle"
    /\ req = NoReq
    /\ calls = <<>>
    /\ result = NoResult
    /\ pre = NoPre
    /\ leftBehind = {}
    /\ inv = NoInv
    /\ lastUpdate = EmptyMap
    /\ SchemaServiceInit

\* a getSchema call that has returned value v
Returned(c, v, contacted) ==
    [status |-> "returned", value |-> v, contacted |-> contacted,
     known |-> schemaLog.settled, afterClear |-> schemaLog.cleared]

\* getSchema up to its await: the cached schema, null after a failed fetch,
\* or the introspection request
GetSchemaBegin(c) ==
    /\ getSchemaCalls[c].status = "idle"
    /\ IF cachedSchema # JNull
       THEN /\ getSchemaCalls' = [getSchemaCalls EXCEPT ![c] = Returned(c, cachedSchema, FALSE)]
            /\ schemaLog' = [schemaLog EXCEPT !.cleared = FALSE]
       ELSE IF schemaFetchError # JNull
            THEN /\ getSchemaCalls' = [getSchemaCalls EXCEPT ![c] = Returned(c, JNull, FALSE)]
                 /\ schemaLog' = [schemaLog EXCEPT !.cleared = FALSE]
            ELSE /\ schemaLog.requests < MaxRequests
                 /\ getSchemaCalls' =
                        [getSchemaCalls EXCEPT ![c] =
                            [status |-> "awaiting", request |-> schemaLog.requests + 1,
                             known |-> schemaLog.settled, afterClear |-> schemaLog.cleared]]
                 /\ schemaLog' = [schemaLog EXCEPT !.requests = @ + 1,
                                                  !.sinceClear = @ + 1, !.cleared = FALSE]
    /\ UNCHANGED <<proc, starts, files, serverTools, registeredTools, nextHandle,
                   coreToolsStatus, pc, req, calls, result, pre, leftBehind, inv,
                   lastUpdate, cachedSchema, schemaFetchError>>

\* the awaited request settles and getSchema returns
GetSchemaSettle(c) ==
    /\ getSchemaCalls[c].status = "awaiting"
    /\ \E outcome \in IntrospectionOutcomes :
        LET call == getSchemaCalls[c]
            value == IF outcome = "__schema" THEN SchemaInstance(call.request) ELSE JNull
        IN /\ IF outcome = "__schema"
              THEN /\ cachedSchema' = value
                   /\ UNCHANGED schemaFetchError
              ELSE /\ schemaFetchError' =
                         JStr(CASE outcome = "missing __schema" ->
                                     "Invalid introspection response: missing __schema"
                                [] outcome = "rejected with an Error" ->
                                     "Failed to fetch schema: <message>"
                                [] OTHER -> "Failed to fetch schema: Unknown error")
                   /\ UNCHANGED cachedSchema
           /\ getSchemaCalls' =
                  [getSchemaCalls EXCEPT ![c] =
                      [status |-> "returned", value |-> value, contacted |-> TRUE,
                       known |-> call.known, afterClear |-> call.afterClear]]
           /\ schemaLog' = [schemaLog EXCEPT !.settled =
                               IF @ = Undefined THEN value ELSE @]
    /\ UNCHANGED <<proc, starts, files, serverTools, registeredTools, nextHandle,
                   coreToolsStatus, pc, req, calls, result, pre, leftBehind, inv, lastUpdate>>

\* the caller has taken the returned value
GetSchemaFinish(c) ==
    /\ getSchemaCalls[c].status = "returned"
    /\ getSchemaCalls' = [getSchemaCalls EXCEPT ![c] = NoCall]
    /\ UNCHANGED <<proc, starts, files, serverTools, registeredTools, nextHandle,
                   coreToolsStatus, pc, req, calls, result, pre, leftBehind, inv,
                   lastUpdate, cachedSchema, schemaFetchError, schemaLog>>

clearSchemaCache ==
    /\ cachedSchema' = JNull
    /\ schemaFetchError' = JNull
    /\ schemaLog' = [schemaLog EXCEPT !.settled = Undefined, !.sinceClear = 0,
                                     !.cleared = TRUE]
    /\ UNCHANGED <<proc, starts, files, serverTools, registeredTools, nextHandle,
                   coreToolsStatus, pc, req, calls, result, pre, leftBehind, inv,
                   lastUpdate, getSchemaCalls>>

NextSchema ==
    \/ \E c \in Callers : GetSchemaBegin(c)
    \/ \E c \in Callers : GetSchemaSettle(c)
    \/ \E c \in Callers : GetSchemaFinish(c)
    \/ clearSchemaCache

SpecSchema == InitSchema /\ [][NextSchema]_vars

(***************************************************************************)
(* The process environment at startup.  client.ts builds the request       *)
(* headers when the module is loaded, then server.ts creates the server.   *)
(* GRAPHQL_ENDPOINT is set.                                                *)
(***************************************************************************)
HeaderVars == {"GRAPHQL_HEADER_AUTHORIZATION", "GRAPHQL_HEADER_COOKIE"}
LegacyVars == {"GRAPHQL_AUTH_TOKEN", "GRAPHQL_COOKIE_HEADER"}
HeaderValues == {"", " ", "a", "b"}

\* key.replace('GRAPHQL_HEADER_', '').toLowerCase().replace(/_/g, '-')
HeaderName(key) ==
    CASE key = "GRAPHQL_HEADER_AUTHORIZATION" -> "authorization"
      [] key = "GRAPHQL_HEADER_COOKIE" -> "cookie"

\* String.prototype.trim on those values
Trim(v) == IF v = " " THEN "" ELSE v

DefaultHeaders ==
    [h \in {"content-type", "accept", "user-agent"} |->
        CASE h = "content-type" -> "application/json"
          [] h = "accept" -> "*/*"
          [] h = "user-agent" -> "GraphQL-MCP-Server/1.0.0"]

\* buildHeaders: the GRAPHQL_HEADER_* loop, then the legacy variables, then
\* the defaults when no header was set
buildHeaders(env) ==
    LET prefixed == {k \in DOMAIN env : k \in HeaderVars /\ env[k] # ""}
        loop == [h \in {HeaderName(k) : k \in prefixed} |->
                    env[CHOOSE k \in prefixed : HeaderName(k) = h]]
        authToken == "GRAPHQL_AUTH_TOKEN"
        withAuth == IF /\ authToken \in DOMAIN env
                       /\ env[authToken] # ""
                       /\ Trim(env[authToken]) # ""
                    THEN MapSet(loop, "authorization", "Bearer " \o env[authToken])
                    ELSE loop
        cookieHeader == "GRAPHQL_COOKIE_HEADER"
        withCookie == IF /\ cookieHeader \in DOMAIN env
                         /\ env[cookieHeader] # ""
                         /\ Trim(env[cookieHeader]) # ""
                      THEN MapSet(withAuth, "cookie", env[cookieHeader])
                      ELSE withAuth
    IN  IF DOMAIN withCookie = {} THEN DefaultHeaders ELSE withCookie

ProcessEnvs ==
    LET headerEnvs == UNION {[S -> HeaderValues] : S \in SUBSET (HeaderVars \cup LegacyVars)}
        disableEnvs == {EmptyMap} \cup
                       {[k \in {"DISABLE_CORE_TOOLS"} |-> v] : v \in EnvValues \ {"unset"}}
    IN  {h @@ d : h \in headerEnvs, d \in disableEnvs}

InitEnv ==
    /\ proc = "stopped"
    /\ starts = 0
    /\ files \in InitStores
    /\ serverTools = EmptyMap
    /\ registeredTools = EmptyMap
    /\ nextHandle = 1
    /\ coreToolsStatus = "not started"
    /\ pc = "idle"
    /\ \E env \in ProcessEnvs : req = [op |-> "boot", params |-> env]
    /\ calls = <<>>
    /\ result = NoResult
    /\ pre = NoPre
    /\ leftBehind = {}
    /\ inv = NoInv
    /\ lastUpdate = EmptyMap
    /\ SchemaServiceInit

\* export const client = createClient()
CreateClient ==
    /\ pc = "idle"
    /\ req.op = "boot"
    /\ pc' = "client"
    /\ result' = [isError |-> FALSE, text |-> "client", headers |-> buildHeaders(req.params)]
    /\ UNCHANGED <<cachedSchema, schemaFetchError, getSchemaCalls, schemaLog,
                   proc, starts, files, serverTools, registeredTools, nextHandle,
                   coreToolsStatus, req, calls, pre, leftBehind, inv, lastUpdate>>

\* const { server, registeredTools, coreToolsStatus } = createServer()
CreateServer ==
    /\ pc = "client"
    /\ pc' = "done"
    /\ starts' = starts + 1
    /\ \E hostOk \in BOOLEAN :
        LET env == req.params
            setting == DisableSetting(IF "DISABLE_CORE_TOOLS" \in DOMAIN env
                                      THEN env["DISABLE_CORE_TOOLS"] ELSE "unset")
        IN  IF StartupThrows(setting, hostOk)
            THEN /\ proc' = "failed"
                 /\ UNCHANGED <<serverTools, registeredTools, nextHandle, coreToolsStatus>>
            ELSE /\ proc' = "running"
                 /\ serverTools' = RegisterAllHost(CoreTable(setting), loadAllTools(files))
                 /\ registeredTools' = registerAllTools(loadAllTools(files))
                 /\ nextHandle' = Cardinality(DOMAIN files) + 1
                 /\ coreToolsStatus' = CoreToolsStatus(setting)
    /\ UNCHANGED <<cachedSchema, schemaFetchError, getSchemaCalls, schemaLog,
                   files, req, calls, result, pre, leftBehind, inv, lastUpdate>>

NextEnv ==
    \/ CreateClient
    \/ CreateServer

SpecEnv == InitEnv /\ [][NextEnv]_vars

(***************************************************************************)
(* list_saved_queries: the names come from the in-memory registry, the     *)
(* descriptions from the definitions loadAllTools reads from the store.    *)
(* The handler is synchronous and runs in one step.                        *)
(***************************************************************************)
NoSavedQueries == "No saved queries found."

\* `Found ${size} saved quer${size === 1 ? 'y' : 'ies'}:` and one line
\* `- **${name}**: ${description}` per key of the map
ListText(names, savedTools) ==
    [isError |-> FALSE, text |-> "Found",
     size |-> Cardinality(names),
     noun |-> IF Cardinality(names) = 1 THEN "query" ELSE "queries",
     lines |-> [n \in names |->
                   IF n \in DOMAIN savedTools
                   THEN savedTools[n].description ELSE "No description"]]

\* mutant: the names are taken from the store
ListSavedQueriesFromStore ==
    /\ proc = "running"
    /\ pc = "idle"
    /\ CoreToolRegistered("list_saved_queries")
    /\ pc' = "done"
    /\ req' = [op |-> "list"]
    /\ \E readdirOk \in BOOLEAN :
        IF DOMAIN registeredTools = {}
        THEN /\ calls' = <<>>
             /\ result' = Ok(NoSavedQueries)
        ELSE IF ~readdirOk \/ LoadAllFails(files)
        THEN /\ calls' = <<"loadAllTools threw">>
             /\ result' = Err("listing saved queries")
        ELSE /\ calls' = <<"loadAllTools">>
             /\ result' = ListText(DOMAIN files, loadAllTools(files))
    /\ UNCHANGED <<cachedSchema, schemaFetchError, getSchemaCalls, schemaLog,
                   proc, coreToolsStatus, starts, inv, lastUpdate, files, serverTools,
                   registeredTools, nextHandle, leftBehind, pre>>

ListSavedQueries ==
    /\ proc = "running"
    /\ pc = "idle"
    /\ CoreToolRegistered("list_saved_queries")
    /\ pc' = "done"
    /\ req' = [op |-> "list"]
    /\ \E readdirOk \in BOOLEAN :
        IF DOMAIN registeredTools = {}
        THEN /\ calls' = <<>>
             /\ result' = Ok(NoSavedQueries)
        ELSE IF ~readdirOk \/ LoadAllFails(files)
        THEN /\ calls' = <<"loadAllTools threw">>
             /\ result' = Err("listing saved queries")
        ELSE /\ calls' = <<"loadAllTools">>
             /\ result' = ListText(DOMAIN registeredTools, loadAllTools(files))
    /\ UNCHANGED <<cachedSchema, schemaFetchError, getSchemaCalls, schemaLog,
                   proc, coreToolsStatus, starts, inv, lastUpdate, files, serverTools,
                   registeredTools, nextHandle, leftBehind, pre>>

\* the environment: a file of the tools directory is removed by something
\* other than the server while no handler runs
DirectoryFileRemoved(n) ==
    /\ pc = "idle"
    /\ n \in DOMAIN files
    /\ files' = MapDelete(files, n)
    /\ UNCHANGED <<cachedSchema, schemaFetchError, getSchemaCalls, schemaLog,
                   proc, coreToolsStatus, starts, inv, lastUpdate, serverTools,
                   registeredTools, nextHandle, leftBehind, pc, req, calls, result, pre>>

NextList ==
    \/ Startup
    \/ Stop
    \/ \E p \in SlotSaveParams, n \in UserNames :
          SaveBegin([p EXCEPT !.tool_name = n])
    \/ SaveCheck
    \/ SavePersist
    \/ SaveRegister
    \/ SaveUpdate
    \/ \E n \in UserNames : DeleteBegin(n)
    \/ DeleteCheck
    \/ DeleteRemove
    \/ DeleteUnregister
    \/ DeleteFile
    \/ ListSavedQueries
    \/ \E n \in UserNames : DirectoryFileRemoved(n)
    \/ Finish

SpecList == Init /\ [][NextList]_vars

(***************************************************************************)
(* The Variable Extractor on its own, applied to every query over a small  *)
(* alphabet.                                                               *)
(***************************************************************************)
MaxQueryLen == 6
QueryChars == {"$", "a", "b", " "}
Queries == UNION {[1..n -> QueryChars] : n \in 0..MaxQueryLen}

InitExtract ==
    /\ proc = "stopped"
    /\ starts = 0
    /\ files = EmptyMap
    /\ serverTools = EmptyMap
    /\ registeredTools = EmptyMap
    /\ nextHandle = 1
    /\ coreToolsStatus = "not started"
    /\ pc = "extract"
    /\ \E q \in Queries : req = [op |-> "extract", params |-> [graphql_query |-> q]]
    /\ calls = <<>>
    /\ result = NoResult
    /\ pre = NoPre
    /\ leftBehind = {}
    /\ inv = NoInv
    /\ lastUpdate = EmptyMap
    /\ SchemaServiceInit

\* const variables = extractGraphQLVariables(params.graphql_query)
Extract ==
    /\ pc = "extract"
    /\ result' = extractGraphQLVariables(req.params.graphql_query)
    /\ pc' = "extracted"
    /\ UNCHANGED <<cachedSchema, schemaFetchError, getSchemaCalls, schemaLog,
                   proc, coreToolsStatus, starts, inv, lastUpdate, files, serverTools,
                   registeredTools, nextHandle, req, calls, pre, leftBehind>>

NextExtract == Extract

SpecExtract == InitExtract /\ [][NextExtract]_vars

(***************************************************************************)
(* Properties.                                                             *)
(***************************************************************************)
Range(seq) == {seq[i] : i \in 1..Len(seq)}
IsSave == req.op = "save"
IsDelete == req.op = "delete"
ReqName == req.params.tool_name
WasRegistered == ReqName \in DOMAIN pre.registeredTools
Unchanged ==
    /\ files = pre.files
    /\ registeredTools = pre.registeredTools
    /\ serverTools = pre.serverTools

\* C1: in a save that creates a tool, the definition is in the store before
\* registerTool is called; when the write fails, registerTool is never called,
\* the name does not enter the registry and the save returns an error result.
C1_PersistBeforeRegister ==
    (IsSave /\ ~WasRegistered) =>
        /\ (pc = "save_register" \/ "registerTool" \in Range(calls)) =>
              /\ calls[1] = "saveToolToFile"
              /\ ReqName \in DOMAIN files
              /\ files[ReqName] = Stringify(BuildToolConfig(req.params))
        /\ (pc = "done" /\ calls = <<"saveToolToFile">>) =>
              /\ result.isError
              /\ ReqName \notin DOMAIN registeredTools
              /\ serverTools = pre.serverTools

C1_Witness ==
    /\ IsSave /\ ~WasRegistered
    /\ pc = "done"
    /\ calls = <<"saveToolToFile">>
    /\ result = Err("Failed to save tool")

\* C2: in a save that creates a tool, when registerTool fails after the
\* definition was persisted, the save returns an error result, the persisted
\* definition stays in the store and the name is not in the registry.
C2_RegisterFailureKeepsFile ==
    (IsSave /\ ~WasRegistered /\ pc = "done"
        /\ "registerTool" \in Range(calls)
        /\ ReqName \notin HostDynamic) =>
        /\ result.isError
        /\ ReqName \in DOMAIN files
        /\ files[ReqName] = Stringify(BuildToolConfig(req.params))
        /\ ReqName \notin DOMAIN registeredTools

C2_Witness ==
    /\ IsSave /\ ~WasRegistered
    /\ pc = "done"
    /\ calls = <<"saveToolToFile", "registerTool">>
    /\ result = Err("registration failed")
    /\ ReqName \in DOMAIN files

\* C3: a save for a name that is already registered, with overwrite false or
\* omitted, fails with 'already exists' and changes nothing: store, registry
\* and host table (the live handler) are as before the call.
C3_DuplicateRejected ==
    (IsSave /\ WasRegistered /\ req.params.overwrite \in {"false", "omitted"}) =>
        /\ pc \in {"save_check", "done"}
        /\ calls = <<>>
        /\ Unchanged
        /\ pc = "done" => result = Err("already exists")

C3_Witness ==
    /\ IsSave /\ WasRegistered
    /\ req.params.overwrite = "omitted"
    /\ pc = "done"
    /\ ReqName \in DOMAIN files
    /\ files[ReqName] # Stringify(BuildToolConfig(req.params))

NewRecord == Stringify(BuildToolConfig(req.params))

\* C4 (as claimed): a save with overwrite true for a registered name, once the
\* new definition is persisted, calls update on the registry entry's handle,
\* never registerTool, and the entry is the same handle before and after.
C4_UpdateInPlace ==
    (IsSave /\ WasRegistered /\ req.params.overwrite = "true" /\ pc = "done"
        /\ validateJsonSchema(req.params.parameter_schema)
        /\ result # Err("Failed to save tool")) =>
        /\ files[ReqName] = NewRecord
        /\ calls = <<"saveToolToFile", "update">>
        /\ registeredTools = pre.registeredTools
        /\ registeredTools[ReqName].kind = "handle"
        /\ ReqName \in HostDynamic
        /\ serverTools[ReqName].handle = registeredTools[ReqName].handle

\* C5 (as claimed): whenever no request is running, every registry entry is
\* the handle the host layer's registerTool returned for that name.
C5_EntriesAreHandles ==
    (proc = "running" /\ pc = "idle") =>
        \A n \in DOMAIN registeredTools :
            /\ registeredTools[n].kind = "handle"
            /\ n \in HostDynamic
            /\ serverTools[n].handle = registeredTools[n].handle

ValidPersisted == {n \in DOMAIN files : isValidToolConfig(files[n])}

IsPrefix(a, b) == Len(a) <= Len(b) /\ \A i \in 1..Len(a) : a[i] = b[i]
DeleteOrder == <<"remove", "registeredTools.delete", "deleteToolFile">>

\* C7: delete calls host-layer removal, then the registry, then the file
\* deletion; when the host-layer removal throws, delete returns an error
\* result, nothing has changed and the file deletion is never attempted.
C7_RemoveFirst ==
    IsDelete =>
        /\ IsPrefix(calls, DeleteOrder)
        /\ ("registeredTools.delete" \in Range(calls)) => ReqName \notin HostDynamic
        /\ (pc = "done" /\ WasRegistered /\ ReqName \notin ProtectedTools
              /\ "registeredTools.delete" \notin Range(calls)) =>
              /\ result.isError
              /\ Unchanged
              /\ ReqName \in DOMAIN registeredTools
              /\ "deleteToolFile" \notin Range(calls)

C7_Witness ==
    /\ IsDelete
    /\ pc = "done"
    /\ calls = <<"remove">>
    /\ result = Err("removal failed")
    /\ ReqName \in DOMAIN files
    /\ ReqName \in HostDynamic

\* C8: when the file deletion fails after host-layer removal and registry
\* removal, delete returns an error result carrying the file-deletion error,
\* the name is out of the registry and the persisted file is still there.
C8_FileDeletionFailure ==
    (IsDelete /\ pc = "done" /\ "deleteToolFile" \in Range(calls)
        /\ ReqName \in DOMAIN pre.files /\ ReqName \in DOMAIN files) =>
        /\ result = Err("Failed to delete tool file")
        /\ ReqName \notin DOMAIN registeredTools
        /\ ReqName \notin HostDynamic
        /\ files = pre.files

C8_Witness ==
    /\ IsDelete
    /\ pc = "done"
    /\ calls = DeleteOrder
    /\ result = Err("Failed to delete tool file")
    /\ ReqName \in DOMAIN files
    /\ ReqName \in DOMAIN pre.registeredTools

\* C9: delete of a protected core tool name fails with 'Cannot delete core
\* tool' before any mutation: no host-layer removal, no registry change, no
\* file deletion.
C9_CoreToolProtected ==
    (IsDelete /\ ReqName \in CoreTools) =>
        /\ pc \in {"delete_check", "done"}
        /\ calls = <<>>
        /\ Unchanged
        /\ pc = "done" => result = Err("Cannot delete core tool")

C9_Witness ==
    /\ IsDelete
    /\ ReqName \in CoreTools
    /\ pc = "done"
    /\ ReqName \in DOMAIN files

\* C10 (as claimed): delete of a name that is not in the registry fails with
\* 'not found' and performs no mutation.
C10_Original ==
    (IsDelete /\ ~WasRegistered) =>
        /\ calls = <<>>
        /\ Unchanged
        /\ pc = "done" => result = Err("not found")

\* C10 (amended): delete of a name that is not a protected core tool name and
\* is not in the registry fails with 'not found' and performs no mutation; a
\* persisted file under that name is not deleted.
C10_NotFound ==
    (IsDelete /\ ~WasRegistered /\ ReqName \notin CoreTools) =>
        /\ pc \in {"delete_check", "done"}
        /\ calls = <<>>
        /\ Unchanged
        /\ pc = "done" => result = Err("not found")

C10_Witness ==
    /\ IsDelete
    /\ ~WasRegistered
    /\ ReqName \notin CoreTools
    /\ pc = "done"
    /\ ReqName \in DOMAIN files

\* C11: every invocation that starts after a successful save-with-overwrite
\* of its tool runs the callback built from the new definition: its arguments
\* are validated by the validator of the new parameter_schema and the request
\* it sends carries the new graphql_query, never the previous ones.
C11_UsesNewDefinition ==
    (inv.status # "none" /\ inv.updated) =>
        LET def == inv.latest
            parsed == Parse(convertJsonSchemaToZod(def.parameter_schema).zod, inv.args)
        IN /\ inv.config = def
           /\ parsed.ok => inv.sent = <<Request(def, parsed.value)>>
           /\ ~parsed.ok => inv.sent = <<>>

C11_Witness ==
    /\ inv.status = "awaiting"
    /\ inv.updated
    /\ inv.config.description = "search"
    /\ inv.sent[1].query = QuerySearch
    /\ inv.sent[1].variables = [k \in {"id", "limit"} |-> IF k = "id" THEN JStr("u1") ELSE JNum(10)]

\* what JSON Schema says of an arguments object: the declared properties whose
\* value has the wrong type and the required properties that are absent
SchemaViolations(schema, args) ==
    IF schema.t = "object" /\ schema.type = "object" /\ schema.hasProperties
    THEN {k \in DOMAIN schema.properties :
             IF k \in DOMAIN args
             THEN ~TypeMatches(schema.properties[k].type, args[k])
             ELSE k \in schema.required}
    ELSE {}

\* C12: an invocation whose arguments fail validation against the tool's
\* parameter_schema (a value of the wrong type, a required property absent)
\* ends at once with an error result, returned not thrown, that says
\* 'Parameter validation error' and names every failing field path; no request
\* is sent to the endpoint.
C12_ValidationFailureStops ==
    (inv.status # "none"
        /\ SchemaViolations(inv.config.parameter_schema, inv.args) # {}) =>
        /\ inv.status = "done"
        /\ inv.sent = <<>>
        /\ inv.result.isError /\ ~inv.result.threw
        /\ inv.result.operation = <<"executing tool", inv.tool>>
        /\ inv.result.text = "Parameter validation error"
        /\ inv.result.paths = SchemaViolations(inv.config.parameter_schema, inv.args)

C12_Witness ==
    /\ inv.status = "done"
    /\ inv.config.parameter_schema = SchemaId
    /\ inv.args = [k \in {"id"} |-> JNum(5)]
    /\ inv.result.paths = {"id"}
    /\ inv.sent = <<>>

\* the variables object the claim describes: the names of the definition's
\* stored variables list that have a value among the validated parameters
StoredVariables(config, validated) ==
    [k \in {n \in Range(config.variables) : n \in DOMAIN validated} |-> validated[k]]

C14_EndpointFailureReturned ==
    inv.status = "done" =>
        /\ ~inv.result.threw
        /\ inv.outcome \in {"error", "value"} =>
              /\ inv.result.isError
              /\ inv.result.operation = <<"executing tool", inv.tool>>
              /\ inv.result.text = IF inv.outcome = "error"
                                   THEN "GraphQL syntax error" ELSE "Unknown error"

C14_Witness ==
    /\ inv.status = "done"
    /\ inv.outcome = "value"
    /\ inv.sent # <<>>
    /\ inv.result.isError
    /\ inv.result.text = "Unknown error"

\* C15: a dynamic tool whose schema declares a property with a default and
\* does not list it in required, invoked without that property, sends the
\* request with the default as the value of the variable of that name.
C15_DefaultSubstituted ==
    inv.status # "none" =>
        LET schema == inv.config.parameter_schema
            names == Range(extractGraphQLVariables(inv.config.graphql_query))
        IN (schema.t = "object" /\ schema.type = "object" /\ schema.hasProperties
                /\ SchemaViolations(schema, inv.args) = {}) =>
              \A k \in DOMAIN schema.properties :
                  (/\ schema.properties[k].hasDefault
                   /\ k \notin schema.required
                   /\ k \notin DOMAIN inv.args
                   /\ k \in names) =>
                      /\ inv.sent # <<>>
                      /\ k \in DOMAIN inv.sent[1].variables
                      /\ inv.sent[1].variables[k] = schema.properties[k].default

\* C16: for every object-typed parameter schema with declared properties, the
\* validator the converter produces rejects an arguments object in which a
\* property listed in required is absent, and accepts one in which the only
\* absent properties are properties not listed in required.
C16_RequiredEnforced ==
    (pc = "parsed" /\ req.params.schema.t = "object"
        /\ req.params.schema.type = "object" /\ req.params.schema.hasProperties) =>
        LET schema == req.params.schema
            input == req.params.input
            present == DOMAIN schema.properties \cap DOMAIN input
            wellTyped == \A k \in present : TypeMatches(schema.properties[k].type, input[k])
        IN /\ (\E k \in schema.required : k \notin DOMAIN input) => ~result.parsed.ok
           /\ (wellTyped /\ \A k \in schema.required : k \in DOMAIN input) => result.parsed.ok

\* C17: the conversion of a parameter schema never throws, whatever the value
\* of the schema; for a value that is not a schema object, a schema with an
\* unrecognized type and an empty schema the validator accepts the input.
C17_ConversionNeverFails ==
    /\ pc # "convert_threw"
    /\ (pc = "parsed" /\ req.params.schema \in {SchemaNotObject, SchemaBadType, SchemaEmpty}) =>
          result.parsed.ok

\* the invalid parameter schemas of the claim: null, a value that is not an
\* object, an unknown type keyword
InvalidSchemas == {JNull, SchemaNotObject, SchemaBadType}

\* C18 (as claimed): a save whose parameter_schema is not a valid JSON Schema
\* (null, a value that is not an object, an unknown type keyword) returns the
\* 'Invalid parameter_schema' error result and changes nothing: no write to
\* the store, no call of the host layer, the registry as before.
C18_InvalidSchemaRejected ==
    (IsSave /\ req.params.parameter_schema \in InvalidSchemas) =>
        /\ pc \in {"save_check", "done"}
        /\ calls = <<>>
        /\ Unchanged
        /\ pc = "done" => result = Err("Invalid parameter_schema")

\* C18 (amended): the same for a save whose name is not registered or whose
\* overwrite is true; for a registered name without overwrite the existence
\* check comes first and the error result is 'already exists', again with
\* nothing changed.
C18_InvalidSchemaAfterExistence ==
    (IsSave /\ req.params.parameter_schema \in InvalidSchemas) =>
        /\ pc \in {"save_check", "done"}
        /\ calls = <<>>
        /\ Unchanged
        /\ pc = "done" =>
              result = IF WasRegistered /\ req.params.overwrite # "true"
                       THEN Err("already exists")
                       ELSE Err("Invalid parameter_schema")

C18_Witness ==
    /\ IsSave /\ WasRegistered
    /\ req.params.overwrite = "true"
    /\ req.params.parameter_schema = JNull
    /\ pc = "done"
    /\ result = Err("Invalid parameter_schema")
    /\ ReqName \in DOMAIN files

\* C19 (as claimed): a save whose parameter_schema has type object and no
\* properties object is rejected and nothing is persisted.
C19_ObjectNeedsProperties ==
    (IsSave /\ req.params.parameter_schema.t = "object"
        /\ req.params.parameter_schema.type = "object"
        /\ ~req.params.parameter_schema.hasProperties) =>
        /\ calls = <<>>
        /\ files = pre.files
        /\ pc = "done" => result.isError

\* C19 (amended): a parameter_schema with type object and no properties object
\* is a valid JSON Schema for save: a save of an unregistered name with such a
\* schema passes the schema check, and when it ends without an error result
\* the definition, schema included, is in the store and the name is registered.
C19_ObjectWithoutPropertiesAccepted ==
    (IsSave /\ ~WasRegistered /\ req.params.parameter_schema = SchemaNoProps) =>
        /\ validateJsonSchema(req.params.parameter_schema)
        /\ result # Err("Invalid parameter_schema")
        /\ (pc = "done" /\ ~result.isError) =>
              /\ ReqName \in DOMAIN files
              /\ files[ReqName] = NewRecord
              /\ files[ReqName].parameter_schema = SchemaNoProps
              /\ ReqName \in DOMAIN registeredTools

C19_Witness ==
    /\ IsSave /\ ~WasRegistered
    /\ req.params.parameter_schema = SchemaNoProps
    /\ pc = "done"
    /\ ~result.isError
    /\ ReqName \in DOMAIN files
    /\ files[ReqName].parameter_schema = SchemaNoProps

\* the positions of the $name tokens of a query and the name at each
TokenStarts(q) == {i \in 1..Len(q) : q[i] = "$" /\ i < Len(q) /\ IsWord(q[i + 1])}
NameAt(q, i) == WordRun(q, i + 1)
FirstOccurrence(q, n) ==
    CHOOSE i \in TokenStarts(q) :
        /\ NameAt(q, i) = n
        /\ \A j \in TokenStarts(q) : NameAt(q, j) = n => i <= j

\* C20: for every query the extractor returns exactly the names that occur as
\* a $name token, each once, in the order of their first occurrence; a query
\* without a $ yields the empty list.
C20_ExtractorOrderedUnique ==
    pc = "extracted" =>
        LET q == req.params.graphql_query IN
        /\ Range(result) = {NameAt(q, i) : i \in TokenStarts(q)}
        /\ \A j, k \in 1..Len(result) : j < k =>
              /\ result[j] # result[k]
              /\ FirstOccurrence(q, result[j]) < FirstOccurrence(q, result[k])
        /\ (\A i \in 1..Len(q) : q[i] # "$") => result = <<>>

C20_Witness ==
    /\ pc = "extracted"
    /\ req.params.graphql_query = <<"$", "b", "$", "a", "$", "b">>
    /\ result = <<"b", "a">>

\* a definition whose variables list is the deduplicated list of the $name
\* tokens of its own query, in order of first occurrence
VariablesDerived(config) == config.variables = extractGraphQLVariables(config.graphql_query)

\* C21 (as claimed): in every state, every definition in the store and every
\* definition bound to a registered handler has a variables list derived from
\* its own graphql_query.
C21_VariablesAlwaysDerived ==
    /\ \A n \in DOMAIN files :
          isValidToolConfig(files[n]) => VariablesDerived(ParseConfig(files[n]))
    /\ \A n \in HostDynamic : VariablesDerived(serverTools[n].config)

\* C21 (amended): every definition a save writes to the store or binds to a
\* handler, an update that changes the query included, has a variables list
\* derived from its own graphql_query; a definition that was in the store
\* before the process started is loaded and bound as it is.
C21_SaveKeepsVariablesDerived ==
    [][/\ \A n \in DOMAIN files' :
            (n \notin DOMAIN files \/ files'[n] # files[n]) =>
                VariablesDerived(ParseConfig(files'[n]))
       /\ proc = "running" =>
            \A n \in HostDynamic' :
                (n \notin HostDynamic \/ serverTools'[n].config # serverTools[n].config) =>
                    VariablesDerived(serverTools'[n].config)]_vars

C21_Witness ==
    /\ IsSave /\ pc = "done" /\ ~result.isError
    /\ ReqName \in DOMAIN pre.files
    /\ pre.files[ReqName]["graphql_query"] = JStr(QueryUser)
    /\ files[ReqName]["graphql_query"] = JStr(QuerySearch)
    /\ ParseConfig(files[ReqName]).variables = <<"id", "limit">>
    /\ serverTools[ReqName].config.graphql_query = QuerySearch
    /\ serverTools[ReqName].config.variables = <<"id", "limit">>

\* C22: a definition saved to the store and then loaded by the same name
\* comes back equal to the one saved; an optional field (pagination_config,
\* idempotency) is in the record and in the loaded value when it was supplied,
\* and in neither when it was omitted.
C22_SaveLoadRoundTrip ==
    (req.op = "storeSave" /\ pc = "done" /\ calls = <<req.params.tool_name>>) =>
        LET n == req.params.tool_name
            config == req.params.config
        IN /\ ~result.threw
           /\ result.value = config
           /\ \A k \in {"pagination_config", "idempotency"} :
                 HasKey(files[n], k) <=> ConfigField(config, k) # Undefined

C22_Witness ==
    /\ req.op = "storeSave" /\ pc = "done" /\ calls = <<req.params.tool_name>>
    /\ req.params.config.pagination_config # Undefined
    /\ req.params.config.idempotency = Undefined
    /\ result.value.pagination_config = req.params.config.pagination_config
    /\ ~HasKey(files[req.params.tool_name], "idempotency")

\* C23: the store's delete of a name that has no file raises no error and
\* leaves the directory, every other definition included, as it was; the
\* store's load of such a name returns null and raises no error.
C23_MissingNameIsQuiet ==
    /\ (req.op = "storeDelete" /\ pc = "done"
            /\ req.params.tool_name \notin DOMAIN pre.files) =>
          /\ ~result.threw
          /\ files = pre.files
    /\ (req.op = "storeLoad" /\ pc = "done"
            /\ req.params.tool_name \notin DOMAIN files) =>
          result = [threw |-> FALSE, value |-> JNull]

C23_Witness ==
    /\ req.op = "storeDelete" /\ pc = "done"
    /\ req.params.tool_name = "get_user"
    /\ DOMAIN pre.files = {"list_items"}
    /\ files = pre.files
    /\ ~result.threw

\* a record that loadToolFromFile cannot return: text that does not parse, or
\* a parsed value that is not a valid tool configuration
Unloadable(record) == record = BadJson \/ ~isValidToolConfig(record)

\* C24: loadAllTools fails as a whole, with no mapping returned, when any one
\* record of the directory is unreadable or structurally invalid, whatever
\* the other records are.
C24_LoadAllFailFast ==
    (req.op = "storeLoadAll" /\ pc = "done"
        /\ \E n \in DOMAIN files : Unloadable(files[n])) =>
        /\ result.threw
        /\ result.value = Undefined

C24_Witness ==
    /\ req.op = "storeLoadAll" /\ pc = "done"
    /\ DOMAIN files = UserNames
    /\ files["get_user"] = StoredFirst("get_user")
    /\ files["list_items"] = CorruptRecord
    /\ result.threw

\* the records the claim lets load: an object with string name, description
\* and graphql_query, a parameter_schema that is an object and not null, and
\* a variables array of strings
WellFormedRecord(json) ==
    /\ IsJsonObject(json)
    /\ \A k \in {"name", "description", "graphql_query"} :
          HasKey(json, k) /\ json[k].t = "string"
    /\ HasKey(json, "parameter_schema") /\ json["parameter_schema"].t \in {"object", "array"}
    /\ HasKey(json, "variables") /\ json["variables"].t = "array"
    /\ \A i \in 1..Len(json["variables"].a) : json["variables"].a[i].t = "string"

\* C25: the load of a stored record succeeds exactly for the well-formed
\* records; every other record, a record whose parameter_schema is null
\* included, fails with an error.
C25_LoadAcceptsOnlyWellFormed ==
    (req.op = "storeLoad" /\ pc = "done" /\ req.params.tool_name \in DOMAIN files) =>
        (~result.threw <=> (files[req.params.tool_name] # BadJson
                              /\ WellFormedRecord(files[req.params.tool_name])))

\* the positions of a handler between its existence check and its return
MidSequence == {"save_persist", "save_register", "save_update"}

\* C26: the steps of one save or update run with no step of another save
\* between them: at most one request is between its existence check and its
\* return, a request that is about to register finds its name still
\* unregistered, and one that is about to update finds it still registered.
C26_SaveSequenceNotInterleaved ==
    /\ Cardinality({s \in Slots : pc[s] \in MidSequence}) <= 1
    /\ \A s \in Slots :
          /\ pc[s] = "save_register" => req[s].params.tool_name \notin DOMAIN registeredTools
          /\ pc[s] = "save_update" => req[s].params.tool_name \in DOMAIN registeredTools

C26_Witness ==
    /\ pc[1] = "save_register"
    /\ pc[2] = "queued"
    /\ req[1].params.tool_name = req[2].params.tool_name
    /\ req[2].params.overwrite = "omitted"
    /\ req[1].params.tool_name \notin DOMAIN registeredTools

\* C27: a getSchema call that starts after some getSchema call has completed
\* (and before the next clearSchemaCache) returns the outcome of that
\* completed call, the same schema instance or null, and sends no request;
\* the first getSchema call after a clearSchemaCache sends a request.
C27_CachedOutcomeStable ==
    \A c \in Callers :
        LET call == getSchemaCalls[c] IN
        call.status = "returned" =>
            /\ call.known # Undefined => (call.value = call.known /\ ~call.contacted)
            /\ call.afterClear => call.contacted

\* C28: when a GRAPHQL_HEADER_* variable and the legacy variable of the same
\* header are both set, the header the client sends carries the value of the
\* GRAPHQL_HEADER_* variable.
C28_HeaderVariableWins ==
    (req.op = "boot" /\ pc # "idle") =>
        LET env == req.params
            sent == result.headers
        IN  /\ ( /\ {"GRAPHQL_HEADER_AUTHORIZATION", "GRAPHQL_AUTH_TOKEN"} \subseteq DOMAIN env
                 /\ env["GRAPHQL_HEADER_AUTHORIZATION"] # ""
                 /\ env["GRAPHQL_AUTH_TOKEN"] \notin {"", " "} )
               => sent["authorization"] = env["GRAPHQL_HEADER_AUTHORIZATION"]
            /\ ( /\ {"GRAPHQL_HEADER_COOKIE", "GRAPHQL_COOKIE_HEADER"} \subseteq DOMAIN env
                 /\ env["GRAPHQL_HEADER_COOKIE"] # ""
                 /\ env["GRAPHQL_COOKIE_HEADER"] \notin {"", " "} )
               => sent["cookie"] = env["GRAPHQL_HEADER_COOKIE"]

\* C29: after a startup that completed, the core tools the host layer holds
\* are none for DISABLE_CORE_TOOLS 'all', only execute_graphql_query for
\* 'management' (in any letter case), and all five for any other value or
\* no value; every persisted tool is registered whatever the setting.
C29_CoreToolsFollowSetting ==
    (req.op = "boot" /\ pc = "done" /\ proc = "running") =>
        LET env == req.params
            v == IF "DISABLE_CORE_TOOLS" \in DOMAIN env
                 THEN env["DISABLE_CORE_TOOLS"] ELSE "unset"
        IN  /\ {n \in DOMAIN serverTools : serverTools[n].kind = "core"} =
                   (IF v \in {"all", "All"} THEN {}
                    ELSE IF v \in {"management", "MANAGEMENT"}
                         THEN {"execute_graphql_query"}
                         ELSE CoreTools)
            /\ \A n \in DOMAIN files :
                   n \in DOMAIN serverTools /\ serverTools[n].kind = "dynamic"
            /\ DOMAIN registeredTools = DOMAIN files

C29_Witness ==
    /\ req.op = "boot" /\ pc = "done" /\ proc = "running"
    /\ "DISABLE_CORE_TOOLS" \in DOMAIN req.params
    /\ req.params["DISABLE_CORE_TOOLS"] = "MANAGEMENT"
    /\ DOMAIN files = {"get_user"}
    /\ DOMAIN serverTools = {"execute_graphql_query", "get_user"}

\* C30 (as stated): list_saved_queries answers 'No saved queries found.'
\* exactly when the registry is empty, and otherwise reports the registry's
\* size and lists exactly the registry's names, each with the description of
\* the persisted definition of that name or 'No description'.
C30_ListReportsRegistry ==
    (req.op = "list" /\ pc = "done") =>
        /\ result.text = NoSavedQueries <=> DOMAIN registeredTools = {}
        /\ DOMAIN registeredTools # {} =>
              /\ result.text = "Found"
              /\ result.size = Cardinality(DOMAIN registeredTools)
              /\ DOMAIN result.lines = DOMAIN registeredTools

\* C30 (amended): the same, whenever loading the store did not throw; when
\* the registry is not empty and loading the store throws, the answer is an
\* error result and no list.
C30_ListReportsRegistryWhenStoreLoads ==
    (req.op = "list" /\ pc = "done") =>
        /\ result.text = NoSavedQueries <=> DOMAIN registeredTools = {}
        /\ result.isError <=> calls = <<"loadAllTools threw">>
        /\ (DOMAIN registeredTools # {} /\ ~result.isError) =>
              /\ result.text = "Found"
              /\ result.size = Cardinality(DOMAIN registeredTools)
              /\ result.noun = (IF result.size = 1 THEN "query" ELSE "queries")
              /\ DOMAIN result.lines = DOMAIN registeredTools
              /\ \A n \in DOMAIN registeredTools :
                    result.lines[n] = IF n \in DOMAIN files
                                      THEN files[n]["description"].s
                                      ELSE "No description"

C30_Witness ==
    /\ req.op = "list" /\ pc = "done"
    /\ result.text = "Found"
    /\ result.size = 2
    /\ result.noun = "queries"
    /\ DOMAIN registeredTools = {"get_user", "list_items"}
    /\ DOMAIN files = {"get_user"}
    /\ result.lines["get_user"] = "second"
    /\ result.lines["list_items"] = "No description"

\* C31: an invocation that was awaiting the endpoint while an overwrite of
\* its tool completed sent one request, with the query and the variables of
\* the definition it started with, and returns the result of that request
\* under that definition's name.
C31_InFlightKeepsDefinition ==
    ( /\ inv.status = "done"
      /\ inv.sent # <<>>
      /\ inv.tool \in DOMAIN lastUpdate
      /\ lastUpdate[inv.tool] # inv.latest ) =>
        LET started == inv.config
            parsed == Parse(convertJsonSchemaToZod(started.parameter_schema).zod, inv.args)
        IN  /\ started = inv.latest
            /\ inv.sent = <<[query |-> started.graphql_query,
                             variables |-> extractVariables(started.graphql_query,
                                                            parsed.value)]>>
            /\ \E outcome \in EndpointOutcomes :
                  /\ outcome.kind = inv.outcome
                  /\ inv.result = withErrorHandling(ExecutingTool(started), outcome)

C31_Witness ==
    /\ inv.status = "done"
    /\ inv.sent # <<>>
    /\ inv.outcome = "returned"
    /\ inv.tool \in DOMAIN lastUpdate
    /\ lastUpdate[inv.tool] # inv.latest
    /\ lastUpdate[inv.tool].graphql_query # inv.config.graphql_query
    /\ serverTools[inv.tool].config = lastUpdate[inv.tool]

\* C32: between two clearSchemaCache calls (and before the first) at most
\* one introspection request is sent, also when a getSchema call starts
\* while another call's request is pending.
C32_OneRequestBetweenClears == schemaLog.sinceClear <= 1

\* C33: in every state, the intermediate states of a save, an update or a
\* delete and the states a failed step leaves included, every name of the
\* registry has a definition in the store.
C33_RegisteredArePersisted == DOMAIN registeredTools \subseteq DOMAIN files

C33_Witness ==
    /\ pc = "done"
    /\ req.op = "delete"
    /\ result.isError
    /\ calls = <<"remove", "registeredTools.delete", "deleteToolFile">>
    /\ DOMAIN registeredTools # {}
    /\ DOMAIN registeredTools # DOMAIN files

\* C34: whenever no request is in progress, the definition bound to the
\* live handler of every registered tool is the definition persisted under
\* the tool's name.
C34_HandlerMatchesStore ==
    (proc = "running" /\ pc = "idle") =>
        \A n \in DOMAIN registeredTools :
            /\ n \in HostDynamic
            /\ n \in DOMAIN files
            /\ serverTools[n].config = loadAllTools(files)[n]

\* C35: no sequence of save and delete requests leaves a persisted
\* definition under a core tool name, so a later startup never finds a
\* persisted tool colliding with a core tool.
C35_NoCoreNamePersisted == pc = "idle" => (DOMAIN files) \cap CoreTools = {}

\* C36: a save without overwrite of a name that has a persisted definition
\* and no registry entry is not rejected as existing: it is carried out as a
\* create (the file is written, then registerTool is called, never update),
\* and when neither step throws the persisted definition is the new one and
\* the tool is registered with it.
C36_ExistenceFromRegistryAlone ==
    ( /\ pc = "done"
      /\ req.op = "save"
      /\ ~OverwriteFlag(req.params)
      /\ req.params.tool_name \in (DOMAIN pre.files) \ (DOMAIN pre.registeredTools)
      /\ req.params.parameter_schema \notin InvalidSchemas ) =>
        LET n == req.params.tool_name
            config == BuildToolConfig(req.params)
        IN  /\ calls \in {<<"saveToolToFile">>, <<"saveToolToFile", "registerTool">>}
            /\ result.isError =>
                  result.text \in {"Failed to save tool", "registration failed"}
            /\ ~result.isError =>
                  /\ calls = <<"saveToolToFile", "registerTool">>
                  /\ files[n] = Stringify(config)
                  /\ n \in DOMAIN registeredTools
                  /\ registeredTools[n].kind = "handle"
                  /\ n \in HostDynamic
                  /\ serverTools[n].config = config

C36_Witness ==
    /\ pc = "done"
    /\ req.op = "save"
    /\ req.params.overwrite = "omitted"
    /\ req.params.tool_name = "get_user"
    /\ "get_user" \in (DOMAIN pre.files) \ (DOMAIN pre.registeredTools)
    /\ ~result.isError
    /\ files["get_user"] # pre.files["get_user"]
    /\ "get_user" \in DOMAIN registeredTools

\* C37: a delete that succeeded leaves the name out of the registry, the
\* host table and the store; a save without overwrite that finds the name in
\* that condition is a create: registerTool is called again, and when neither
\* the write nor the registration throws the tool is registered under a new
\* handle and persisted with the new definition.
C37_DeleteThenSaveCreates ==
    LET n == req.params.tool_name IN
    /\ (pc = "done" /\ req.op = "delete" /\ ~result.isError) =>
          /\ n \notin DOMAIN registeredTools
          /\ n \notin DOMAIN serverTools
          /\ n \notin DOMAIN files
    /\ ( /\ pc = "done"
         /\ req.op = "save"
         /\ ~OverwriteFlag(req.params)
         /\ n \notin DOMAIN pre.registeredTools
         /\ n \notin DOMAIN pre.serverTools
         /\ n \notin DOMAIN pre.files
         /\ req.params.parameter_schema \notin InvalidSchemas ) =>
          /\ result.isError =>
                result.text \in {"Failed to save tool", "registration failed"}
          /\ ~result.isError =>
                /\ calls = <<"saveToolToFile", "registerTool">>
                /\ files[n] = Stringify(BuildToolConfig(req.params))
                /\ n \in DOMAIN registeredTools
                /\ registeredTools[n].kind = "handle"
                /\ serverTools[n] = DynamicEntry(registeredTools[n].handle,
                                                 BuildToolConfig(req.params))
                /\ \A m \in DOMAIN pre.serverTools :
                      pre.serverTools[m].handle # registeredTools[n].handle

\* the tool holds the second handle of this run and had no file when the save
\* began: the first handle was removed and the file deleted by a delete
C37_Witness ==
    /\ pc = "done"
    /\ req.op = "save"
    /\ req.params.overwrite = "omitted"
    /\ req.params.tool_name = "get_user"
    /\ ~result.isError
    /\ "get_user" \notin DOMAIN pre.files
    /\ registeredTools["get_user"] = HandleEntry(2)
    /\ serverTools["get_user"].config.description = "search"

\* C38: started on an empty store, every persisted definition is stored
\* under its own name: the key loadAllTools derives from the file name is the
\* tool name the file was saved under, and the definition loaded for that key
\* carries that name.
C38_KeyEqualsName ==
    \A n \in DOMAIN files :
        LET file == ToolFileName(n) IN
        /\ EndsWithJson(file)
        /\ ReplaceJson(file) = <<n>>
        /\ ~loadToolFromFile(files, n).threw
        /\ loadAllTools(files)[n].name = n

C38_Witness ==
    /\ pc = "idle"
    /\ "get_user" \in DOMAIN lastUpdate
    /\ DOMAIN files = {"get_user"}
    /\ nextHandle = 3
    /\ loadAllTools(files)["get_user"].description = "second"

\* C39: for the parameter schema of a saved tool, every arguments object the
\* handler's runtime validator accepts is accepted by the input schema the
\* tool is registered with at the host layer.
C39_HostAcceptsWhatHandlerAccepts ==
    (pc = "host_checked" /\ validateJsonSchema(req.params.schema)) =>
        (result.parsed.ok => result.host.ok)

====
